---- MODULE Spec2Model ----
(***************************************************************************)
(* doc-to-md: the HWP and HWPX readers of doc_to_md/parsers/hwp_parser.py, *)
(* the conversions of doc_to_md/converter.py and the upload handlers of    *)
(* doc_to_md/web/app.py.                                                   *)
(*                                                                         *)
(*   SpecWalk  the record walker (_extract_hwp_text) and the paragraph     *)
(*             text decoder (_decode_para_text) on record streams that     *)
(*             are encoded from known records and cut at any length.       *)
(*   Spec      the container reader (_parse_hwp) on compound files with    *)
(*             a FileHeader stream, BodyText/SectionN streams, summary     *)
(*             properties and BinData streams.                             *)
(*   SpecDecode  the paragraph text decoder (_decode_para_text) on its     *)
(*             own, one code per step, on payloads built from every code   *)
(*             below 32 and from characters.                               *)
(*   SpecConvert  one call of convert_file: the existence check, the type  *)
(*             detection, the parser lookup, the parse, _build_output, the *)
(*             post-processing and the write of the output file.           *)
(*   SpecWalkLive  the record walker under weak fairness of its loop, on   *)
(*             streams of a few records.                                   *)
(*   SpecBatch  one call of convert_batch on a directory listing, one      *)
(*             path per step, with conversions that fail in the parser or  *)
(*             while they write the output.                                *)
(*   SpecHwpx  the archive reader (_parse_hwpx) on ZIP archives with       *)
(*             section, metadata and image members.                        *)
(*   SpecWeb   the handlers of POST /convert and POST /convert/preview on  *)
(*             a few requests, under weak fairness of each request's       *)
(*             handler, response and background task.                      *)
(*                                                                         *)
(* Bytes are integers 0..255, a byte buffer is a sequence of bytes, and a  *)
(* Python str is the sequence of its code points.  A cursor is the Python  *)
(* 0-based offset: the byte at offset k of d is d[k + 1].                  *)
(***************************************************************************)
EXTENDS Integers, Sequences, FiniteSets, TLC

VARIABLES
    \* ---- _extract_hwp_text(data) ----
    data,          \* the section buffer
    i,             \* the cursor
    text_parts,    \* the fragments appended so far
    wpc,           \* "idle" | "loop" | "done" | "raised"
    text,          \* the returned string (when wpc = "done")
    rec_log,       \* history: one entry per record the walker sliced
    recs,          \* history: the records the buffer was encoded from
    \* ---- _parse_hwp(file_path, extract_images, image_dir) ----
    has_olefile,   \* `import olefile` succeeds
    file_path,     \* the input path
    container,     \* the file's content
    extract_images,
    image_dir,
    pc,            \* "idle" | "start" | "header" | "sections" | "metadata"
                   \* | "images" | "finally" | "done"
    ole_open,      \* the OleFileIO handle is open
    is_compressed,
    section_idx,
    parts,
    metadata,
    images,
    img_index,
    list_pos,      \* position of the asset loop in ole.listdir()
    outcome,       \* what the call returned or raised (when pc = "done")
    reads,         \* history: the stream names passed to ole.openstream
    opens,         \* history: how many times a handle was opened
    loop_done,     \* history: the section loop ended by its break
    written,       \* history: the files save_image wrote
    partial,       \* the files a save_image that raised has left on disk
    stream_log,    \* history: one entry per section or BinData stream whose
                   \* bytes were read: whether zlib.decompress was called on
                   \* them, and the bytes handed to the walker or to save_image
    \* ---- _decode_para_text(data) ----
    dec_data,      \* the payload buffer (parameter data)
    dec_i,         \* the cursor (local i)
    dec_chars,     \* the characters appended so far (local chars)
    dpc,           \* "idle" | "loop" | "done"
    decoded,       \* the returned string (when dpc = "done")
    dec_markers,   \* history: the cursors at which a control marker was read
    \* ---- convert_file(input_path, output_path, ..., no_metadata, clean) ----
    input_path,
    output_path,   \* NoPath for None
    no_metadata,
    clean,
    cenv,          \* the surroundings of the call: whether the input file
                   \* exists, what _detect_by_magic returns, what
                   \* parser.parse returns or raises
    cpc,           \* "idle" | "start" | "detect" | "parser" | "parse"
                   \* | "write" | "done"
    file_type,
    result,
    content,
    built,         \* history: what _build_output returned
    cleaned,       \* history: what clean_markdown returned
    fs_dirs,       \* the directories that exist
    fs_files,      \* the files written, with their bytes
    conv_outcome,  \* what the call returned or raised (when cpc = "done")
    calls,         \* history: the functions convert_file has called
    options,       \* the parameters extract_images, image_dir (none for
                   \* None) and encoding of convert_file
    registry,      \* the keys of _PARSER_REGISTRY
    \* ---- convert_batch(input_dir, output_dir, recursive, **kwargs) ----
    listing,       \* the entries below input_dir, each with what convert_file
                   \* does on it
    recursive,
    kwargs,        \* the keyword arguments handed on to convert_file
    bpc,           \* "idle" | "start" | "loop" | "done" | "raised"
    queue,         \* the paths the for loop has still to visit
    results,       \* the report entries (local results)
    batch_out,     \* output_dir: whether it was made, the directories made
                   \* below it and the files in it, with their bytes
    \* ---- _parse_hwpx(file_path, extract_images, image_dir) ----
    zf,            \* the archive: whether it is a ZIP file, and its members
                   \* in the order of namelist()
    hx_stem,       \* file_path.stem
    hx_extract,    \* extract_images and image_dir
    hpc,           \* "idle" | "start" | "sections" | "check" | "done"
    section_files, \* the section names the for loop has still to read
    hx_parts,      \* local parts
    hx_metadata,   \* local metadata
    hx_images,     \* local images
    hx_names,      \* the names the image loop has still to visit
    hx_reads,      \* history: the names handed to zf.read
    hx_written,    \* history: the image files save_image made, whole, or in
                   \* part when it raised
    hx_outcome,    \* what the call returned or raised (when hpc = "done")
    \* ---- web/app.py: the /convert and /convert/preview handlers ----
    web_reqs,      \* request -> the handler's position and locals
    tmp_dirs,      \* the temporary directories that exist
    mkdtemps       \* the number of tempfile.mkdtemp calls so far

walk_vars == <<data, i, text_parts, wpc, text, rec_log, recs>>

parse_vars == <<has_olefile, file_path, container, extract_images, image_dir, pc,
                ole_open, is_compressed, section_idx, parts, metadata, images,
                img_index, list_pos, outcome, reads, opens, loop_done, written,
                partial, stream_log>>

dec_vars == <<dec_data, dec_i, dec_chars, dpc, decoded, dec_markers>>

\* the variables of the components other than the walker and _parse_hwp
conv_vars == <<input_path, output_path, no_metadata, clean, cenv, cpc,
               file_type, result, content, built, cleaned, fs_dirs,
               fs_files, conv_outcome, calls, options, registry>>

batch_vars == <<listing, recursive, kwargs, bpc, queue, results, batch_out>>

\* the variables of the components added to the converter
hwpx_vars == <<zf, hx_stem, hx_extract, hpc, section_files, hx_parts,
               hx_metadata, hx_images, hx_names, hx_reads, hx_written,
               hx_outcome>>

web_vars == <<web_reqs, tmp_dirs, mkdtemps>>

more_vars == <<batch_vars, hwpx_vars, web_vars>>

ext_vars == <<dec_vars, conv_vars, more_vars>>

vars == <<walk_vars, parse_vars, ext_vars>>

(***************************************************************************)
(* Strings                                                                 *)
(***************************************************************************)
LF == 10

NBSP == 160

\* "\n\n", the separator of both joins
BlankLine == <<LF, LF>>

\* str.isspace() on one code point below 65536 (what str.strip() removes)
IsSpace(c) ==
    \/ c \in 9..13
    \/ c \in 28..32
    \/ c \in {133, 160, 5760, 8232, 8233, 8239, 8287, 12288}
    \/ c \in 8192..8202

RECURSIVE LStrip(_)
LStrip(s) ==
    IF s = <<>> THEN <<>>
    ELSE IF IsSpace(Head(s)) THEN LStrip(Tail(s)) ELSE s

RECURSIVE RStrip(_)
RStrip(s) ==
    IF s = <<>> THEN <<>>
    ELSE IF IsSpace(s[Len(s)]) THEN RStrip(SubSeq(s, 1, Len(s) - 1)) ELSE s

\* text.strip()
Strip(s) == RStrip(LStrip(s))

\* sep.join(ps)
RECURSIVE Join(_, _)
Join(sep, ps) ==
    IF ps = <<>> THEN <<>>
    ELSE IF Len(ps) = 1 THEN ps[1]
    ELSE ps[1] \o sep \o Join(sep, Tail(ps))

\* data[a : b] of Python, for 0 <= a and 0 <= b
Slice(d, a, b) ==
    LET hi == IF b > Len(d) THEN Len(d) ELSE b
    IN  IF a >= hi THEN <<>> ELSE SubSeq(d, a + 1, hi)

(***************************************************************************)
(* _decode_para_text                                                       *)
(***************************************************************************)
\* the 14 bytes of inline data after a control marker
SkipLen == 14

\* the codes followed by an inline / extended control block
ControlCodes == {1, 2, 3, 11, 12, 14, 15, 16, 17, 18, 21, 22, 23}

\* struct.unpack_from("<H", data, off)[0]
UnpackH(d, off) == d[off + 1] + 256 * d[off + 2]

\* ControlEmit where code 30 appends an ordinary space
MutControlEmit(code) ==
    IF code = 10 \/ code = 13 THEN <<LF>> ELSE IF code = 30 THEN <<32>> ELSE <<>>

\* ControlSkip that skips the inline data of codes 1 to 3 only
MutControlSkip(code) == IF code <= 3 THEN SkipLen ELSE 0

\* ControlSkip that stops two bytes before the end of the block
MutShortSkip(code) == SkipLen - 2

\* the number of bytes skipped after control code `code`
ControlSkip(code) == IF code <= 3 THEN SkipLen ELSE SkipLen

\* the characters one code below 32 appends
ControlEmit(code) ==
    IF code \in ControlCodes THEN <<>>
    ELSE IF code = 10 THEN <<LF>>
    ELSE IF code = 13 THEN <<LF>>
    ELSE IF code = 24 THEN <<>>
    ELSE IF code = 30 THEN <<NBSP>>
    ELSE <<>>

\* the loop of _decode_para_text from cursor k with `chars` collected
RECURSIVE DecodeFrom(_, _, _)
DecodeFrom(d, k, chars) ==
    IF ~(k + 1 < Len(d)) THEN chars
    ELSE LET code == UnpackH(d, k)
             k2   == k + 2
         IN  IF code = 0 THEN chars
             ELSE IF code < 32 THEN
                 DecodeFrom(d,
                            IF code \in ControlCodes
                            THEN k2 + ControlSkip(code) ELSE k2,
                            chars \o ControlEmit(code))
             ELSE DecodeFrom(d, k2, Append(chars, code))

DecodeParaText(d) == DecodeFrom(d, 0, <<>>)

\* The decoder's state before its first iteration.
DecodeStart == [i |-> 0, chars |-> <<>>, pc |-> "loop"]

\* One evaluation of the loop condition of _decode_para_text and, when it
\* holds, of the loop body.
DecodeStep(d, s) ==
    IF ~(s.i + 1 < Len(d)) THEN [s EXCEPT !.pc = "done"]
    ELSE LET code == UnpackH(d, s.i)
             k2   == s.i + 2
         IN  IF code = 0 THEN [i |-> k2, chars |-> s.chars, pc |-> "done"]
             ELSE IF code < 32 THEN
                 [i     |-> IF code \in ControlCodes
                            THEN k2 + ControlSkip(code) ELSE k2,
                  chars |-> s.chars \o ControlEmit(code),
                  pc    |-> "loop"]
             ELSE [i |-> k2, chars |-> Append(s.chars, code), pc |-> "loop"]

(***************************************************************************)
(* _extract_hwp_text                                                       *)
(***************************************************************************)
\* HWPTAG_PARA_TEXT
TagParaText == 67

\* the 12-bit size value that announces a 4-byte size
ExtendedSize == 4095

\* struct.unpack_from("<I", data, off)[0]; struct.error when fewer than 4
\* bytes are left at off
UnpackI(d, off) ==
    IF off + 4 > Len(d) THEN [ok |-> FALSE, value |-> 0]
    ELSE [ok |-> TRUE,
          value |-> d[off + 1] + 256 * d[off + 2] + 65536 * d[off + 3]
                    + 16777216 * d[off + 4]]

\* UnpackHeader with the size taken from bit 16 on: (header >> 16) & 0xFFF
MutUnpackHeader(d, off) ==
    IF off + 4 > Len(d) THEN [ok |-> FALSE, tag_id |-> 0, level |-> 0, size |-> 0]
    ELSE [ok     |-> TRUE,
          tag_id |-> d[off + 1] + 256 * (d[off + 2] % 4),
          level  |-> (d[off + 2] \div 4) + 64 * (d[off + 3] % 16),
          size   |-> d[off + 3] + 256 * (d[off + 4] % 16)]

\* The record header at off: header = struct.unpack_from("<I", data, off)[0],
\* tag_id = header & 0x3FF, level = (header >> 10) & 0x3FF,
\* size = (header >> 20) & 0xFFF.  With header = b0 + 2^8 b1 + 2^16 b2 +
\* 2^24 b3 the three fields are taken from the bytes, which keeps every
\* intermediate value below 2^31.
UnpackHeader(d, off) ==
    IF off + 4 > Len(d) THEN [ok |-> FALSE, tag_id |-> 0, level |-> 0, size |-> 0]
    ELSE LET b0 == d[off + 1]
             b1 == d[off + 2]
             b2 == d[off + 3]
             b3 == d[off + 4]
         IN  [ok     |-> TRUE,
              tag_id |-> b0 + 256 * (b1 % 4),
              level  |-> (b1 \div 4) + 64 * (b2 % 16),
              size   |-> (b2 \div 16) + 16 * b3]

\* HeaderFits without the check for a cut header
MutHeaderFits(d, k) == TRUE

\* not (i + 4 > len(data))
HeaderFits(d, k) == ~(k + 4 > Len(d))

\* not (i + 8 > len(data))
ExtSizeFits(d, k) == ~(k + 8 > Len(d))

\* PayloadFits without the check for a cut payload
MutPayloadFits(d, k, size) == TRUE

\* not (i + size > len(data))
PayloadFits(d, k, size) == ~(k + size > Len(d))

\* AfterHeader that leaves the cursor on the header
MutAfterHeader(k) == k

\* i += 4
AfterHeader(k) == k + 4

\* AfterExtHeader that steps over the header only
MutAfterExtHeader(k) == k + 4

\* i += 8
AfterExtHeader(k) == k + 8

\* ParaFragment that appends the stripped text also when it is empty
MutParaFragment(payload) == <<Strip(DecodeParaText(payload))>>

\* what a tag-67 payload appends to text_parts: nothing, or the stripped text
ParaFragment(payload) ==
    LET t == DecodeParaText(payload)
    IN  IF Strip(t) # <<>> THEN <<Strip(t)>> ELSE <<>>

\* RecordFragment that decodes the payload of every tag
MutRecordFragment(tag_id, payload) == ParaFragment(payload)

\* what a record with this tag and payload appends to text_parts
RecordFragment(tag_id, payload) ==
    IF tag_id = TagParaText THEN ParaFragment(payload) ELSE <<>>

\* The walker's state before its first iteration.
WalkStart == [i |-> 0, text_parts |-> <<>>, pc |-> "loop", log |-> <<>>]

\* The rest of an iteration once the size is known and the cursor k is past
\* the header: the bounds check (its break leaves the cursor past the
\* header), the slice, the dispatch on the tag.
WalkPayload(d, s, h, size, k) ==
    IF ~PayloadFits(d, k, size) THEN [s EXCEPT !.pc = "done", !.i = k]
    ELSE LET record_data == Slice(d, k, k + size)
             frag        == RecordFragment(h.tag_id, record_data)
         IN  [i          |-> k + size,
              text_parts |-> s.text_parts \o frag,
              pc         |-> "loop",
              log        |-> Append(s.log,
                                [start   |-> s.i,
                                 tag_id  |-> h.tag_id,
                                 level   |-> h.level,
                                 size12  |-> h.size,
                                 size    |-> size,
                                 payload |-> record_data,
                                 next    |-> k + size,
                                 frag    |-> frag])]

\* One evaluation of the loop condition and, when it holds, of the loop body.
WalkStep(d, s) ==
    IF ~(s.i < Len(d)) THEN [s EXCEPT !.pc = "done"]
    ELSE IF ~HeaderFits(d, s.i) THEN [s EXCEPT !.pc = "done"]
    ELSE LET h == UnpackHeader(d, s.i)
         IN  IF ~h.ok THEN [s EXCEPT !.pc = "raised"]
             ELSE IF h.size = ExtendedSize THEN
                 IF ~ExtSizeFits(d, s.i) THEN [s EXCEPT !.pc = "done"]
                 ELSE LET x == UnpackI(d, s.i + 4)
                      IN  IF ~x.ok THEN [s EXCEPT !.pc = "raised"]
                          ELSE WalkPayload(d, s, h, x.value, AfterExtHeader(s.i))
             ELSE WalkPayload(d, s, h, h.size, AfterHeader(s.i))

RECURSIVE WalkRun(_, _)
WalkRun(d, s) == IF s.pc # "loop" THEN s ELSE WalkRun(d, WalkStep(d, s))

\* _extract_hwp_text(data): the returned string, or the escape of struct.error
ExtractHwpText(d) ==
    LET f == WalkRun(d, WalkStart)
    IN  IF f.pc = "done"
        THEN [ok |-> TRUE, text |-> Join(BlankLine, f.text_parts)]
        ELSE [ok |-> FALSE, text |-> <<>>]

(***************************************************************************)
(* Record streams given to the walker                                      *)
(***************************************************************************)
\* at most this many records are encoded into one buffer
MaxRecords == 2

\* 16-bit codes as little-endian bytes
RECURSIVE CodeBytes(_)
CodeBytes(codes) ==
    IF codes = <<>> THEN <<>>
    ELSE <<Head(codes) % 256, Head(codes) \div 256>> \o CodeBytes(Tail(codes))

\* a 14-byte inline block that holds a printable code, a zero code, a line
\* break, a control marker and more printable codes
InlineBlock == CodeBytes(<<88, 0, 10, 1, 88, 89, 90>>)

Rec(tag, level, ext, payload) ==
    [tag_id |-> tag, level |-> level, ext |-> ext, payload |-> payload]

\* The records a buffer is built from: tag-67 records whose payloads cover
\* the code table (with line breaks and non-breaking spaces at the start, in
\* the middle, at the end and alone), sizes 0, 12-bit and extended, and
\* records of other tags.
RecordSet ==
    { Rec(67, 0, FALSE, <<>>),
      Rec(67, 0, FALSE, CodeBytes(<<65, 0>>)),
      Rec(67, 0, FALSE, CodeBytes(<<13, 65, 10>>)),
      Rec(67, 0, FALSE, CodeBytes(<<65, 10, 66>>)),
      Rec(67, 0, FALSE, CodeBytes(<<10, 30, 13>>)),
      Rec(67, 0, FALSE, CodeBytes(<<30, 65, 30>>)),
      Rec(67, 2, FALSE, CodeBytes(<<65, 30, 66>>)),
      Rec(67, 0, FALSE, CodeBytes(<<0, 65>>)),
      Rec(67, 0, FALSE, CodeBytes(<<1>>) \o InlineBlock \o CodeBytes(<<67>>)),
      Rec(67, 0, FALSE, CodeBytes(<<68, 11, 69, 70>>)),
      Rec(67, 0, FALSE, CodeBytes(<<69>>) \o <<70>>),
      Rec(67, 0, FALSE, CodeBytes(<<24, 70, 5, 32>>)),
      Rec(67, 0, TRUE,  CodeBytes(<<66>>)),
      Rec(67, 0, TRUE,  <<>>),
      Rec(323, 0, FALSE, <<>>),
      Rec(65, 0, FALSE, <<>>),
      Rec(71, 65, FALSE, CodeBytes(<<90>>)) }

\* the bytes of one record: the 4-byte header tag | level << 10 | size << 20,
\* the 4-byte size after a header whose size field is 0xFFF, the payload
EncodeRecord(r) ==
    LET size12 == IF r.ext THEN ExtendedSize ELSE Len(r.payload)
        n      == Len(r.payload)
    IN  << r.tag_id % 256,
           (r.tag_id \div 256) + 4 * (r.level % 64),
           (r.level \div 64) + 16 * (size12 % 16),
           size12 \div 16 >>
        \o (IF r.ext
            THEN <<n % 256, (n \div 256) % 256, (n \div 65536) % 256, n \div 16777216>>
            ELSE <<>>)
        \o r.payload

RECURSIVE EncodeStream(_)
EncodeStream(rs) ==
    IF rs = <<>> THEN <<>> ELSE EncodeRecord(Head(rs)) \o EncodeStream(Tail(rs))

RecordSeqs == UNION { [1..n -> RecordSet] : n \in 0..MaxRecords }

(***************************************************************************)
(* zlib.decompress(data, -15)                                              *)
(*                                                                         *)
(* Raw DEFLATE on the streams of the model: a stream is a chain of stored  *)
(* blocks (BTYPE 00), or it is refused.  A block starts on a byte boundary *)
(* with BFINAL in bit 0 and BTYPE in bits 1-2 of its first byte; a stored  *)
(* block goes on with LEN and NLEN (16 bits each, little-endian,           *)
(* NLEN = ~LEN) and LEN literal bytes.  BTYPE 11 is "invalid block type",  *)
(* LEN + NLEN # 0xFFFF is "invalid stored block lengths", input that ends  *)
(* before the final block does is "incomplete or truncated stream"; bytes  *)
(* after the final block are ignored.  Huffman blocks (BTYPE 01, 10) are   *)
(* outside the model (known = FALSE) and no stream of the model has one.   *)
(***************************************************************************)
RECURSIVE InflateFrom(_, _, _)
InflateFrom(d, pos, out) ==
    LET err == [ok |-> FALSE, known |-> TRUE, bytes |-> <<>>]
    IN  IF pos >= Len(d) THEN err
        ELSE LET b      == d[pos + 1]
                 bfinal == b % 2
                 btype  == (b \div 2) % 4
             IN  IF btype = 3 THEN err
                 ELSE IF btype # 0 THEN [ok |-> FALSE, known |-> FALSE, bytes |-> <<>>]
                 ELSE IF pos + 5 > Len(d) THEN err
                 ELSE LET len  == d[pos + 2] + 256 * d[pos + 3]
                          nlen == d[pos + 4] + 256 * d[pos + 5]
                      IN  IF len + nlen # 65535 THEN err
                          ELSE IF pos + 5 + len > Len(d) THEN err
                          ELSE IF bfinal = 1
                               THEN [ok |-> TRUE, known |-> TRUE,
                                     bytes |-> out \o Slice(d, pos + 5, pos + 5 + len)]
                          ELSE InflateFrom(d, pos + 5 + len,
                                           out \o Slice(d, pos + 5, pos + 5 + len))

\* zlib.decompress(d, -15): ok and the bytes, or zlib.error
Inflate(d) == InflateFrom(d, 0, <<>>)

(***************************************************************************)
(* The compound file given to _parse_hwp                                   *)
(***************************************************************************)
\* the section streams BodyText/Section0 .. Section(MaxSections - 1) may exist
MaxSections == 3

\* d as one final stored block of raw DEFLATE (for Len(d) < 256)
Deflated(d) == <<1, Len(d), 0, 255 - Len(d), 255>> \o d

\* a record stream that opens with an empty tag-71 record (its first byte
\* 0x47 is no DEFLATE block) and goes on with one tag-67 record
PlainSection(codes) ==
    EncodeStream(<<Rec(71, 0, FALSE, <<>>), Rec(67, 0, FALSE, CodeBytes(codes))>>)

NoStream == [present |-> FALSE, bytes |-> <<>>]

Stream(d) == [present |-> TRUE, bytes |-> d]

\* what BodyText/SectionN can be: absent; a plain record stream with text
\* "A"; a deflated record stream with text "A", "B" or none
SectionStreams ==
    { NoStream,
      Stream(PlainSection(<<65>>)),
      Stream(Deflated(PlainSection(<<65>>))),
      Stream(Deflated(PlainSection(<<66, 10>>))),
      Stream(Deflated(PlainSection(<<10>>))) }

\* a FileHeader of n bytes whose byte 36 is `flags`
FileHeader(n, flags) == Stream([k \in 1..n |-> IF k = 37 THEN flags ELSE 0])

\* FileHeader streams with byte 36 = 1 (compressed), = 2 (bit 0 clear) and,
\* in a header of exactly 37 bytes, = 3 (compressed)
GoodHeaders == { FileHeader(40, 1), FileHeader(40, 2), FileHeader(37, 3) }

\* no FileHeader stream, and a FileHeader of 36 bytes
BadHeaders == { NoStream, FileHeader(36, 1) }

\* ole.get_metadata(): it raises, or it gives the four properties read by
\* _read_hwp_metadata ("" stands for a property that is unset)
Summaries ==
    { [raises |-> TRUE, title |-> "", author |-> "", subject |-> "",
       creating_application |-> ""],
      [raises |-> FALSE, title |-> "Report", author |-> "", subject |-> "S",
       creating_application |-> "Hwp"] }

PngMagic == <<137, 80, 78, 71, 13, 10, 26, 10>>

GifMagic == <<71, 73, 70, 56>>

\* the BinData streams of a file: none; one PNG stored as is; a stream that
\* cannot be read followed by a deflated GIF
BinDataSets ==
    { <<>>,
      <<[readable |-> TRUE, bytes |-> PngMagic \o <<1>>]>>,
      <<[readable |-> FALSE, bytes |-> <<>>],
        [readable |-> TRUE, bytes |-> Deflated(GifMagic \o <<57>>)]>>,
      <<[readable |-> TRUE, bytes |-> PngMagic \o <<1>>],
        [readable |-> TRUE, bytes |-> Deflated(GifMagic \o <<57>>)],
        [readable |-> TRUE, bytes |-> <<7, 7>>]>> }

\* the input paths: "a.hwp" and "docs/b1.hwp"
Paths ==
    { [parent |-> <<>>, stem |-> <<97>>],
      [parent |-> <<100, 111, 99, 115>>, stem |-> <<98, 49>>] }

NoDir == [none |-> TRUE, path |-> <<>>]

\* image_dir: None, or the directory "img"
ImageDirs == { NoDir, [none |-> FALSE, path |-> <<105, 109, 103>>] }

\* a file that olefile.isOleFile refuses holds no streams
NotOleFile == [is_ole |-> FALSE, header |-> NoStream,
               sections |-> [k \in 1..MaxSections |-> NoStream],
               summary |-> CHOOSE m \in Summaries : m.raises,
               bindata |-> <<>>]

OleFile(h, ss, m, bs) ==
    [is_ole |-> TRUE, header |-> h, sections |-> ss, summary |-> m, bindata |-> bs]

\* every stream that may be inflated is inside the model of Inflate
StreamsKnown(c) ==
    /\ \A k \in 1..Len(c.sections) :
          c.sections[k].present => Inflate(c.sections[k].bytes).known
    /\ \A k \in 1..Len(c.bindata) :
          c.bindata[k].readable => Inflate(c.bindata[k].bytes).known

(***************************************************************************)
(* The call _parse_hwp is not running in SpecWalk.                         *)
(***************************************************************************)
NoOutcome == [kind |-> "none", msg |-> "", path |-> <<>>, content |-> <<>>,
              metadata |-> <<>>, images |-> <<>>]

\* the locals of _parse_hwp before the call
ParseLocals ==
    /\ ole_open = FALSE /\ is_compressed = FALSE
    /\ section_idx = 0 /\ parts = <<>> /\ metadata = <<>> /\ images = <<>>
    /\ img_index = 0 /\ list_pos = 0 /\ outcome = NoOutcome
    /\ reads = <<>> /\ opens = 0 /\ loop_done = FALSE /\ written = <<>>
    /\ partial = {} /\ stream_log = <<>>

ParseIdle ==
    /\ has_olefile = TRUE
    /\ file_path = CHOOSE p \in Paths : p.parent = <<>>
    /\ container = NotOleFile
    /\ extract_images = FALSE /\ image_dir = NoDir
    /\ pc = "idle"
    /\ ParseLocals

\* the walker is not stepped in Spec; _parse_hwp calls it as ExtractHwpText
WalkIdle ==
    /\ data = <<>> /\ i = 0 /\ text_parts = <<>> /\ wpc = "idle"
    /\ text = <<>> /\ rec_log = <<>> /\ recs = <<>>

\* _decode_para_text is not stepped on its own
DecodeIdle ==
    /\ dec_data = <<>> /\ dec_i = 0 /\ dec_chars = <<>> /\ dpc = "idle"
    /\ decoded = <<>> /\ dec_markers = <<>>

\* supported_extensions() of the parser classes _ensure_parsers_loaded loads
ParserExtensions ==
    { ".pdf", ".docx", ".doc", ".hwp", ".hwpx", ".pptx", ".ppt", ".xlsx",
      ".xls", ".csv", ".html", ".htm", ".epub", ".png", ".jpg", ".jpeg",
      ".tiff", ".tif", ".bmp", ".gif", ".webp", ".txt", ".rtf", ".md", ".text" }

\* ext.lstrip(".") for the extensions above
LStripDot(ext) ==
    CASE ext = ".pdf" -> "pdf" [] ext = ".docx" -> "docx" [] ext = ".doc" -> "doc"
      [] ext = ".hwp" -> "hwp" [] ext = ".hwpx" -> "hwpx" [] ext = ".pptx" -> "pptx"
      [] ext = ".ppt" -> "ppt" [] ext = ".xlsx" -> "xlsx" [] ext = ".xls" -> "xls"
      [] ext = ".csv" -> "csv" [] ext = ".html" -> "html" [] ext = ".htm" -> "htm"
      [] ext = ".epub" -> "epub" [] ext = ".png" -> "png" [] ext = ".jpg" -> "jpg"
      [] ext = ".jpeg" -> "jpeg" [] ext = ".tiff" -> "tiff" [] ext = ".tif" -> "tif"
      [] ext = ".bmp" -> "bmp" [] ext = ".gif" -> "gif" [] ext = ".webp" -> "webp"
      [] ext = ".txt" -> "txt" [] ext = ".rtf" -> "rtf" [] ext = ".md" -> "md"
      [] ext = ".text" -> "text"

\* the keys of _PARSER_REGISTRY after _ensure_parsers_loaded()
RegisteredTypes == { LStripDot(ext) : ext \in ParserExtensions }

\* _ensure_parsers_loaded(): a registry that holds a key is left alone
EnsureParsersLoaded(reg) == IF reg # {} THEN reg ELSE RegisteredTypes

\* convert_file is not running, the parser modules are loaded
ConvIdle ==
    /\ input_path = "None" /\ output_path = "None"
    /\ no_metadata = FALSE /\ clean = FALSE /\ cenv = "None"
    /\ cpc = "idle" /\ file_type = "None" /\ result = "None"
    /\ content = <<>> /\ built = <<>> /\ cleaned = <<>>
    /\ fs_dirs = {} /\ fs_files = {}
    /\ conv_outcome = "None" /\ calls = <<>>
    /\ options = "None" /\ registry = RegisteredTypes

\* the components other than the walker and _parse_hwp are not running
BatchIdle ==
    /\ listing = {} /\ recursive = FALSE /\ kwargs = "None"
    /\ bpc = "idle" /\ queue = <<>>
    /\ results = <<>> /\ batch_out = "None"

HwpxIdle ==
    /\ zf = "None" /\ hx_stem = <<>> /\ hx_extract = FALSE /\ hpc = "idle"
    /\ section_files = <<>> /\ hx_parts = <<>> /\ hx_metadata = <<>>
    /\ hx_images = <<>> /\ hx_names = <<>> /\ hx_reads = <<>>
    /\ hx_written = <<>> /\ hx_outcome = "None"

\* no request has arrived
WebIdle ==
    /\ web_reqs = <<>> /\ tmp_dirs = {} /\ mkdtemps = 0

MoreIdle == BatchIdle /\ HwpxIdle /\ WebIdle

ExtIdle == DecodeIdle /\ ConvIdle /\ MoreIdle

(***************************************************************************)
(* SpecWalk: one call of _extract_hwp_text, one loop iteration per step    *)
(***************************************************************************)
\* one call of _extract_hwp_text on the encoding of one of the record
\* sequences, cut anywhere
InitWalkOn(seqs) ==
    /\ \E rs \in seqs :
         \E cut \in 0..Len(EncodeStream(rs)) :
            /\ recs = rs
            /\ data = SubSeq(EncodeStream(rs), 1, cut)
    /\ i = WalkStart.i
    /\ text_parts = WalkStart.text_parts
    /\ wpc = WalkStart.pc
    /\ rec_log = WalkStart.log
    /\ text = <<>>
    /\ ParseIdle
    /\ ExtIdle

InitWalk == InitWalkOn(RecordSeqs)

WalkState == [i |-> i, text_parts |-> text_parts, pc |-> wpc, log |-> rec_log]

\* an iteration that slices a record and goes back to the loop head
WalkRecord ==
    /\ wpc = "loop"
    /\ LET n == WalkStep(data, WalkState)
       IN  /\ n.pc = "loop"
           /\ i' = n.i
           /\ text_parts' = n.text_parts
           /\ rec_log' = n.log
    /\ UNCHANGED <<data, wpc, text, recs, parse_vars, ext_vars>>

\* the loop ends (its condition fails, or a break) and the join is returned,
\* or struct.error escapes
WalkEnd ==
    /\ wpc = "loop"
    /\ LET n == WalkStep(data, WalkState)
       IN  /\ n.pc # "loop"
           /\ wpc' = n.pc
           /\ i' = n.i
           /\ text' = IF n.pc = "done" THEN Join(BlankLine, n.text_parts) ELSE text
    /\ UNCHANGED <<data, text_parts, rec_log, recs, parse_vars, ext_vars>>

NextWalk == WalkRecord \/ WalkEnd

SpecWalk == InitWalk /\ [][NextWalk]_vars

\* the records of the buffers termination is checked on: a record of size
\* 0, a record with an extended size, a record of another tag with a payload
LiveRecords ==
    { Rec(67, 0, FALSE, <<>>),
      Rec(67, 0, TRUE,  CodeBytes(<<66>>)),
      Rec(71, 65, FALSE, CodeBytes(<<90>>)) }

LiveSeqs == UNION { [1..n -> LiveRecords] : n \in 0..MaxRecords }

InitWalkLive == InitWalkOn(LiveSeqs)

\* The walker is one sequential loop: an iteration that can run does run.
SpecWalkLive == InitWalkLive /\ [][NextWalk]_vars /\ WF_vars(NextWalk)

(***************************************************************************)
(* SpecDecode: one call of _decode_para_text, one loop iteration per step  *)
(***************************************************************************)
\* at most this many free codes open a payload
MaxCodes == 2

\* the codes payloads are built from: every code below 32, the first code
\* that is a character, a letter, a Hangul syllable, a lone surrogate and
\* the largest code
DecodeCodes == (0..32) \cup {65, 44032, 55296, 65535}

CodeSeqs == UNION { [1..n -> DecodeCodes] : n \in 0..MaxCodes }

\* what follows the free codes: nothing, one odd byte, a 14-byte block and
\* a letter, a block cut to 13 bytes, a block cut to 6 bytes
PayloadTails ==
    { <<>>, <<7>>, InlineBlock \o CodeBytes(<<67>>),
      SubSeq(InlineBlock, 1, 13), SubSeq(InlineBlock, 1, 6) }

InitDecode ==
    /\ \E cs \in CodeSeqs, t \in PayloadTails : dec_data = CodeBytes(cs) \o t
    /\ dec_i = DecodeStart.i
    /\ dec_chars = DecodeStart.chars
    /\ dpc = DecodeStart.pc
    /\ decoded = <<>>
    /\ dec_markers = <<>>
    /\ WalkIdle
    /\ ParseIdle
    /\ ConvIdle
    /\ MoreIdle

DecodeState == [i |-> dec_i, chars |-> dec_chars, pc |-> dpc]

\* an iteration that reads a non-zero code and goes back to the loop head
DecodeCode ==
    /\ dpc = "loop"
    /\ LET n == DecodeStep(dec_data, DecodeState)
       IN  /\ n.pc = "loop"
           /\ dec_i' = n.i
           /\ dec_chars' = n.chars
    /\ dec_markers' = IF UnpackH(dec_data, dec_i) \in ControlCodes
                      THEN Append(dec_markers, dec_i) ELSE dec_markers
    /\ UNCHANGED <<dec_data, dpc, decoded, walk_vars, parse_vars, conv_vars,
                   more_vars>>

\* the loop ends (fewer than 2 bytes are left, or code 0) and "".join(chars)
\* is returned
DecodeEnd ==
    /\ dpc = "loop"
    /\ LET n == DecodeStep(dec_data, DecodeState)
       IN  /\ n.pc = "done"
           /\ dec_i' = n.i
           /\ dpc' = "done"
           /\ decoded' = n.chars
    /\ UNCHANGED <<dec_data, dec_chars, dec_markers, walk_vars, parse_vars,
                   conv_vars, more_vars>>

NextDecode == DecodeCode \/ DecodeEnd

SpecDecode == InitDecode /\ [][NextDecode]_vars

(***************************************************************************)
(* Reference for the walker's claims: the code table of the paragraph      *)
(* text payload, over the 16-bit codes of a payload.                       *)
(***************************************************************************)
\* the little-endian 16-bit codes of a payload (an odd last byte is no code)
PayloadCodes(p) == [k \in 1..(Len(p) \div 2) |-> p[2 * k - 1] + 256 * p[2 * k]]

DropCodes(cs, n) == IF n >= Len(cs) THEN <<>> ELSE SubSeq(cs, n + 1, Len(cs))

\* the characters the code table emits for a sequence of codes
RECURSIVE TableEmit(_)
TableEmit(cs) ==
    IF cs = <<>> THEN <<>>
    ELSE LET c == Head(cs)
         IN  CASE c = 0 -> <<>>
               [] c \in {1, 2, 3, 11, 12, 14, 15, 16, 17, 18, 21, 22, 23} ->
                      TableEmit(DropCodes(cs, 8))
               [] c \in {10, 13} -> <<10>> \o TableEmit(Tail(cs))
               [] c = 30 -> <<160>> \o TableEmit(Tail(cs))
               [] c \in (1..31) \ {1, 2, 3, 10, 11, 12, 13, 14, 15, 16, 17, 18,
                                   21, 22, 23, 30} -> TableEmit(Tail(cs))
               [] OTHER -> <<c>> \o TableEmit(Tail(cs))

\* the characters the code table emits for the payload of record r
RecEmit(r) == TableEmit(PayloadCodes(r.payload))

\* the offset of record k of rs in EncodeStream(rs)
RecOffset(rs, k) == Len(EncodeStream(SubSeq(rs, 1, k - 1)))

\* how many records of rs lie whole in the first n bytes of EncodeStream(rs)
CompleteCount(rs, n) ==
    Cardinality({k \in 1..Len(rs) : RecOffset(rs, k + 1) <= n})

\* the fragments of the first m records of rs, in order
RECURSIVE FragmentsOf(_, _)
FragmentsOf(rs, m) ==
    IF m = 0 THEN <<>>
    ELSE FragmentsOf(rs, m - 1) \o RecordFragment(rs[m].tag_id, rs[m].payload)

\* [0x43,0x01,0x00,0x00, 0x41,0x00, 0x00,0x00]
ScenarioBuffer == <<67, 1, 0, 0, 65, 0, 0, 0>>

\* [0x43,0x00,0x40,0x00, 0x41,0x00, 0x00,0x00]: header 67 | 4 << 20
EncodedScenario == <<67, 0, 64, 0, 65, 0, 0, 0>>

(***************************************************************************)
(* Claims about the walker (SpecWalk)                                      *)
(***************************************************************************)
\* C1 as stated: on [0x43,0x01,0x00,0x00,0x41,0x00,0x00,0x00] the walker
\* reads one record with tag_id 67 and size 4 whose payload is code 0x0041
\* then code 0, and returns "A".
C1_ScenarioAsStated ==
    (wpc = "done" /\ data = ScenarioBuffer) =>
        /\ Len(rec_log) = 1
        /\ rec_log[1].tag_id = 67
        /\ rec_log[1].size = 4
        /\ rec_log[1].payload = <<65, 0, 0, 0>>
        /\ text = <<65>>

\* C1 amended: on [0x43,0x00,0x40,0x00,0x41,0x00,0x00,0x00], the buffer whose
\* header encodes tag_id 67 and size 4, the walker reads that one record with
\* payload code 0x0041 then code 0 and returns "A"; on the buffer as stated
\* the headers decode to (tag_id 323, size 0) and (tag_id 65, size 0), two
\* empty records are read and the returned text is empty.
C1_Scenario ==
    /\ (wpc = "done" /\ data = EncodedScenario) =>
           /\ Len(rec_log) = 1
           /\ rec_log[1].tag_id = 67
           /\ rec_log[1].level = 0
           /\ rec_log[1].size = 4
           /\ rec_log[1].payload = <<65, 0, 0, 0>>
           /\ text = <<65>>
    /\ (wpc = "done" /\ data = ScenarioBuffer) =>
           /\ Len(rec_log) = 2
           /\ rec_log[1].tag_id = 323 /\ rec_log[1].size = 0
           /\ rec_log[2].tag_id = 65 /\ rec_log[2].size = 0
           /\ text = <<>>

C1_Witness == wpc = "done" /\ data = EncodedScenario /\ text = <<65>>

\* the text a record contributed: its fragment, or nothing
Contributed(e) == IF e.frag = <<>> THEN <<>> ELSE e.frag[1]

\* C2 as stated: for every tag-67 record of the encoded stream that the
\* walker reads, the text it contributes is exactly the characters the code
\* table emits for the record's payload, line breaks and non-breaking spaces
\* at the start and the end included.
C2_RoundTripAsStated ==
    \A k \in 1..Len(rec_log) :
        recs[k].tag_id = 67 => Contributed(rec_log[k]) = RecEmit(recs[k])

\* C2 amended: the walker recovers the payload of every tag-67 record it
\* reads, and the record contributes the characters the code table emits for
\* that payload with the whitespace (line breaks, non-breaking spaces,
\* spaces) at its start and end removed; when nothing is left the record
\* contributes no fragment.
C2_RoundTrip ==
    \A k \in 1..Len(rec_log) :
        recs[k].tag_id = 67 =>
            /\ rec_log[k].tag_id = 67
            /\ rec_log[k].payload = recs[k].payload
            /\ rec_log[k].frag =
                  IF Strip(RecEmit(recs[k])) = <<>> THEN <<>>
                  ELSE <<Strip(RecEmit(recs[k]))>>

C2_Witness ==
    /\ wpc = "done"
    /\ \E k \in 1..Len(rec_log) :
          /\ recs[k].tag_id = 67
          /\ rec_log[k].frag # <<>>
          /\ Head(RecEmit(recs[k])) = 10
          /\ RecEmit(recs[k])[Len(RecEmit(recs[k]))] = 10
    /\ \E k \in 1..Len(rec_log) :
          /\ recs[k].tag_id = 67
          /\ RecEmit(recs[k]) # <<>>
          /\ rec_log[k].frag = <<>>

\* C9: the walker never raises, and on a buffer cut anywhere (inside a
\* header, inside an extended size, inside a payload, or between records) the
\* returned text is the fragments of the records that lie whole before the
\* cut, in order, joined by a blank line.
C9_Truncation ==
    /\ wpc # "raised"
    /\ wpc = "done" =>
          text = Join(BlankLine, FragmentsOf(recs, CompleteCount(recs, Len(data))))

\* a buffer cut inside the payload of its second record, after a first
\* record that gave text
C9_Witness ==
    /\ wpc = "done"
    /\ Len(recs) = 2
    /\ Len(data) > RecOffset(recs, 2) + 4
    /\ Len(data) < RecOffset(recs, 3)
    /\ text # <<>>
    /\ RecordFragment(recs[2].tag_id, recs[2].payload) # <<>>

\* C10: every record the walker reads whose 12-bit size field is not 0xFFF
\* starts where the encoded record starts, hands the decoder a payload of
\* exactly that many bytes (the encoded record's payload), and moves the
\* cursor by exactly 4 + size, also for size 0: at the loop head after the
\* record the cursor is there.
C10_ExactSize ==
    /\ \A k \in 1..Len(rec_log) :
          rec_log[k].size12 # 4095 =>
              /\ rec_log[k].start = RecOffset(recs, k)
              /\ rec_log[k].size12 = Len(recs[k].payload)
              /\ Len(rec_log[k].payload) = rec_log[k].size12
              /\ rec_log[k].payload = recs[k].payload
              /\ rec_log[k].next = rec_log[k].start + 4 + rec_log[k].size12
    /\ (rec_log # <<>> /\ wpc = "loop") => i = rec_log[Len(rec_log)].next

C10_Witness ==
    /\ Len(rec_log) = 2
    /\ rec_log[1].size12 = 0
    /\ rec_log[1].next = rec_log[1].start + 4
    /\ rec_log[2].size12 = 6
    /\ i = 14

(***************************************************************************)
(* _parse_hwp                                                              *)
(***************************************************************************)
\* the byte of FileHeader that holds the compression flag in bit 0
FlagOffset == 36

\* olefile.isOleFile(str(file_path))
IsOleFile(c) == c.is_ole

\* ("BodyText", k) is the stream name f"BodyText/Section{k}"
SectionName(k) == <<"BodyText", k>>

HeaderName == <<"FileHeader", 0>>

\* ("BinData", k) is the name of the k-th stream under BinData/
BinName(k) == <<"BinData", k>>

\* SectionExists that looks for any section stream from index k on
MutSectionExists(c, k) == \E j \in (k + 1)..Len(c.sections) : c.sections[j].present

\* ole.exists(f"BodyText/Section{k}")
SectionExists(c, k) == k + 1 <= Len(c.sections) /\ c.sections[k + 1].present

\* CompressedFlag that tests the whole byte: bool(header[36])
MutCompressedFlag(header) == header[FlagOffset + 1] # 0

\* is_compressed = bool(header[36] & 1)
CompressedFlag(header) == (header[FlagOffset + 1] % 2) = 1

\* an entry of stream_log: the stream, whether zlib.decompress was called on
\* its bytes, where the bytes went ("walker", "save_image", "none") and the
\* bytes that went there
StreamEntry(name, inflated, to, bytes) ==
    [name |-> name, inflated |-> inflated, to |-> to, bytes |-> bytes]

\* ole.listdir(): every stream of the file, as path components
ListDir(c) ==
    (IF c.header.present THEN <<HeaderName>> ELSE <<>>)
    \o [k \in 1..Len(c.bindata) |-> BinName(k)]
    \o LET present == {k \in 1..Len(c.sections) : c.sections[k].present}
           RECURSIVE Names(_)
           Names(k) == IF k > Len(c.sections) THEN <<>>
                       ELSE (IF k \in present THEN <<SectionName(k - 1)>> ELSE <<>>)
                            \o Names(k + 1)
       IN  Names(1)

\* the exception `kind` with message text `msg` about path `path`
Raised(kind, msg, path) ==
    [kind |-> kind, msg |-> msg, path |-> path, content |-> <<>>,
     metadata |-> <<>>, images |-> <<>>]

\* ParserError(f"올바른 HWP 파일이 아닙니다: {file_path}")
FormatError(path) == Raised("ParserError", "not a valid HWP file", path)

\* ParserError("HWP 파싱을 위해 olefile을 설치해주세요: pip install olefile")
ImportFailed == Raised("ParserError", "olefile is not installed", <<>>)

\* ParserError(f"HWP에서 텍스트를 추출할 수 없습니다: {file_path}")
NoTextError(path) == Raised("ParserError", "no text could be extracted", path)

\* ParseResult(content="\n\n".join(parts), metadata=metadata, images=images)
Returned(ps, md, imgs) ==
    [kind |-> "return", msg |-> "", path |-> <<>>,
     content |-> Join(BlankLine, ps), metadata |-> md, images |-> imgs]

\* Finally that closes the handle on the normal path only
MutFinally(raising) == ole_open' = IF raising THEN ole_open ELSE FALSE

\* finally: ole.close(), on the way out of the try block
Finally(raising) == ole_open' = FALSE

\* NotOle that lets every file through
MutNotOle(c) == FALSE

\* if not olefile.isOleFile(str(file_path))
NotOle(c) == ~IsOleFile(c)

\* import olefile raises ImportError: ParserError, before the file is
\* looked at
ImportFails ==
    /\ pc = "start"
    /\ ~has_olefile
    /\ pc' = "done"
    /\ outcome' = ImportFailed
    /\ UNCHANGED <<has_olefile, file_path, container, extract_images, image_dir,
                   ole_open, is_compressed, section_idx, parts, metadata, images,
                   img_index, list_pos, reads, opens, loop_done, written, partial, stream_log>>
    /\ UNCHANGED <<walk_vars, ext_vars>>

\* raise ParserError(...) for a file that is no compound file
CheckNotOle ==
    /\ pc = "start"
    /\ has_olefile
    /\ NotOle(container)
    /\ pc' = "done"
    /\ outcome' = FormatError(file_path)
    /\ UNCHANGED <<has_olefile, file_path, container, extract_images, image_dir, ole_open,
                   is_compressed, section_idx, parts, metadata, images,
                   img_index, list_pos, reads, opens, loop_done, written, partial, stream_log>>
    /\ UNCHANGED <<walk_vars, ext_vars>>

\* ole = olefile.OleFileIO(str(file_path)) and the four initialisations
OpenOle ==
    /\ pc = "start"
    /\ has_olefile
    /\ ~NotOle(container)
    /\ ole_open' = TRUE
    /\ opens' = opens + 1
    /\ parts' = <<>> /\ images' = <<>> /\ metadata' = <<>> /\ img_index' = 0
    /\ pc' = "header"
    /\ UNCHANGED <<has_olefile, file_path, container, extract_images, image_dir,
                   is_compressed, section_idx, list_pos, outcome, reads,
                   loop_done, written, partial, stream_log>>
    /\ UNCHANGED <<walk_vars, ext_vars>>

\* an exception leaves the try block: the handle is closed, the call ends
Escape(kind) ==
    /\ Finally(TRUE)
    /\ pc' = "done"
    /\ outcome' = Raised(kind, "", <<>>)

\* ole.openstream("FileHeader") when the file has no such stream
HeaderMissing ==
    /\ pc = "header"
    /\ ~container.header.present
    /\ reads' = Append(reads, HeaderName)
    /\ Escape("OSError")
    /\ UNCHANGED <<has_olefile, file_path, container, extract_images, image_dir,
                   is_compressed, section_idx, parts, metadata, images,
                   img_index, list_pos, opens, loop_done, written, partial, stream_log>>
    /\ UNCHANGED <<walk_vars, ext_vars>>

\* header[36] on a FileHeader of fewer than 37 bytes
HeaderShort ==
    /\ pc = "header"
    /\ container.header.present
    /\ ~(FlagOffset < Len(container.header.bytes))
    /\ reads' = Append(reads, HeaderName)
    /\ Escape("IndexError")
    /\ UNCHANGED <<has_olefile, file_path, container, extract_images, image_dir,
                   is_compressed, section_idx, parts, metadata, images,
                   img_index, list_pos, opens, loop_done, written, partial, stream_log>>
    /\ UNCHANGED <<walk_vars, ext_vars>>

\* header = ole.openstream("FileHeader").read(); is_compressed = ...
ReadFileHeader ==
    /\ pc = "header"
    /\ container.header.present
    /\ FlagOffset < Len(container.header.bytes)
    /\ reads' = Append(reads, HeaderName)
    /\ is_compressed' = CompressedFlag(container.header.bytes)
    /\ section_idx' = 0
    /\ pc' = "sections"
    /\ UNCHANGED <<has_olefile, file_path, container, extract_images, image_dir, ole_open,
                   parts, metadata, images, img_index, list_pos, outcome,
                   opens, loop_done, written, partial, stream_log>>
    /\ UNCHANGED <<walk_vars, ext_vars>>

\* if not ole.exists(stream_name): break
SectionLoopExit ==
    /\ pc = "sections"
    /\ ~SectionExists(container, section_idx)
    /\ loop_done' = TRUE
    /\ pc' = "metadata"
    /\ UNCHANGED <<has_olefile, file_path, container, extract_images, image_dir, ole_open,
                   is_compressed, section_idx, parts, metadata, images,
                   img_index, list_pos, outcome, reads, opens, written, partial, stream_log>>
    /\ UNCHANGED <<walk_vars, ext_vars>>

\* ole.openstream(stream_name).read() fails with an I/O error
SectionReadFails ==
    /\ pc = "sections"
    /\ SectionExists(container, section_idx)
    /\ reads' = Append(reads, SectionName(section_idx))
    /\ Escape("OSError")
    /\ UNCHANGED <<has_olefile, file_path, container, extract_images, image_dir,
                   is_compressed, section_idx, parts, metadata, images,
                   img_index, list_pos, opens, loop_done, written, partial, stream_log>>
    /\ UNCHANGED <<walk_vars, ext_vars>>

\* the bytes of section k as the walker gets them: ok is FALSE when
\* zlib.decompress raised zlib.error
SectionData(c, compressed, k) ==
    IF compressed THEN Inflate(c.sections[k + 1].bytes)
    ELSE [ok |-> TRUE, known |-> TRUE, bytes |-> c.sections[k + 1].bytes]

\* OnInflateError that leaves the section loop
MutOnInflateError(k) == [section_idx |-> k, pc |-> "metadata", loop_done |-> TRUE]

\* except zlib.error: section_idx += 1; continue
OnInflateError(k) == [section_idx |-> k + 1, pc |-> "sections", loop_done |-> FALSE]

\* a section that does not inflate is skipped
SectionInflateFails ==
    /\ pc = "sections"
    /\ SectionExists(container, section_idx)
    /\ ~SectionData(container, is_compressed, section_idx).ok
    /\ reads' = Append(reads, SectionName(section_idx))
    /\ section_idx' = OnInflateError(section_idx).section_idx
    /\ pc' = OnInflateError(section_idx).pc
    /\ loop_done' = OnInflateError(section_idx).loop_done
    /\ stream_log' = Append(stream_log,
                            StreamEntry(SectionName(section_idx), is_compressed,
                                        "none", <<>>))
    /\ UNCHANGED <<has_olefile, file_path, container, extract_images, image_dir, ole_open,
                   is_compressed, parts, metadata, images, img_index,
                   list_pos, outcome, opens, written, partial>>
    /\ UNCHANGED <<walk_vars, ext_vars>>

\* text = self._extract_hwp_text(data); if text: parts.append(text);
\* section_idx += 1
SectionExtract ==
    /\ pc = "sections"
    /\ SectionExists(container, section_idx)
    /\ SectionData(container, is_compressed, section_idx).ok
    /\ reads' = Append(reads, SectionName(section_idx))
    /\ stream_log' =
          Append(stream_log,
                 StreamEntry(SectionName(section_idx), is_compressed, "walker",
                             SectionData(container, is_compressed, section_idx).bytes))
    /\ LET t == ExtractHwpText(SectionData(container, is_compressed, section_idx).bytes)
       IN  IF t.ok
           THEN /\ parts' = IF t.text # <<>> THEN Append(parts, t.text) ELSE parts
                /\ section_idx' = section_idx + 1
                /\ UNCHANGED <<pc, outcome, ole_open>>
           ELSE /\ Escape("struct.error")
                /\ UNCHANGED <<parts, section_idx>>
    /\ UNCHANGED <<has_olefile, file_path, container, extract_images, image_dir,
                   is_compressed, metadata, images, img_index, list_pos,
                   opens, loop_done, written, partial>>
    /\ UNCHANGED <<walk_vars, ext_vars>>

\* the keys _read_hwp_metadata may set
MetadataKeys == {"title", "author", "subject", "application"}

\* the property of ole.get_metadata() stored under key k
MetaProperty(m, k) ==
    CASE k = "title" -> m.title
      [] k = "author" -> m.author
      [] k = "subject" -> m.subject
      [] k = "application" -> m.creating_application

\* ReadHwpMetadata without the except clause: every key is set when
\* get_metadata raises
MutReadHwpMetadata(m) ==
    [k \in {x \in MetadataKeys : m.raises \/ MetaProperty(m, x) # ""} |->
        MetaProperty(m, k)]

\* _read_hwp_metadata(ole): the set properties; {} when get_metadata raises
ReadHwpMetadata(m) ==
    IF m.raises THEN [k \in {} |-> ""]
    ELSE [k \in {x \in MetadataKeys : MetaProperty(m, x) # ""} |-> MetaProperty(m, k)]

\* metadata = self._read_hwp_metadata(ole)
ReadMetadata ==
    /\ pc = "metadata"
    /\ metadata' = ReadHwpMetadata(container.summary)
    /\ list_pos' = 0
    /\ pc' = "images"
    /\ UNCHANGED <<has_olefile, file_path, container, extract_images, image_dir, ole_open,
                   is_compressed, section_idx, parts, images, img_index,
                   outcome, reads, opens, loop_done, written, partial, stream_log>>
    /\ UNCHANGED <<walk_vars, ext_vars>>

\* d[:Len(prefix)] == prefix
StartsWith(d, prefix) == Slice(d, 0, Len(prefix)) = prefix

\* _guess_image_ext(data): "png", "jpg", "gif", "bmp" or "tiff"
GuessImageExt(d) ==
    IF StartsWith(d, <<137, 80, 78, 71, 13, 10, 26, 10>>) THEN <<112, 110, 103>>
    ELSE IF StartsWith(d, <<255, 216>>) THEN <<106, 112, 103>>
    ELSE IF StartsWith(d, <<71, 73, 70, 56>>) THEN <<103, 105, 102>>
    ELSE IF StartsWith(d, <<66, 77>>) THEN <<98, 109, 112>>
    ELSE IF StartsWith(d, <<73, 73, 42, 0>>) \/ StartsWith(d, <<77, 77, 0, 42>>)
         THEN <<116, 105, 102, 102>>
    ELSE <<112, 110, 103>>

\* str(n) for n >= 0
RECURSIVE Decimal(_)
Decimal(n) ==
    IF n < 10 THEN <<48 + n>> ELSE Decimal(n \div 10) \o <<48 + (n % 10)>>

\* f"{n:03d}"
RECURSIVE ZeroPad3(_)
ZeroPad3(ds) == IF Len(ds) >= 3 THEN ds ELSE ZeroPad3(<<48>> \o ds)

\* generate_image_filename(base_name, index, extension)
GenerateImageFilename(base_name, index, extension) ==
    LET ext == IF extension # <<>> /\ Head(extension) = 46
               THEN extension ELSE <<46>> \o extension
    IN  base_name \o <<95, 105, 109, 103, 95>> \o ZeroPad3(Decimal(index)) \o ext

\* str(image_dir / filename), dir being str(image_dir): pathlib writes no
\* leading "." and no second "/" after a directory that ends in one
JoinPath(dir, filename) ==
    IF dir \in {<<>>, <<46>>} THEN filename
    ELSE IF dir[Len(dir)] = 47 THEN dir \o filename
    ELSE dir \o <<47>> \o filename

\* f"Image {img_index}"
AltText(index) == <<73, 109, 97, 103, 101, 32>> \o Decimal(index)

\* WantImages that does not ask for a directory
MutWantImages == extract_images

\* if extract_images and image_dir
WantImages == extract_images /\ ~image_dir.none

\* the asset loop is at a stream of ListDir
AtListEntry == pc = "images" /\ WantImages /\ list_pos < Len(ListDir(container))

\* the stream the asset loop is at
ListEntry == ListDir(container)[list_pos + 1]

\* the BinData stream the asset loop is at
BinEntry == container.bindata[ListEntry[2]]

\* AssetData that keeps whatever the failed attempt left
MutAssetData(raw, compressed) == IF compressed THEN Inflate(raw).bytes ELSE raw

\* img_data after the tolerated attempt to inflate it
AssetData(raw, compressed) ==
    IF compressed /\ Inflate(raw).ok THEN Inflate(raw).bytes ELSE raw

\* AssetFailed that counts the failed asset
MutAssetFailed(index) == index + 1

\* img_index after except Exception caught a failure of the asset: the
\* statement img_index += 1 was not reached
AssetFailed(index) == index

\* the condition of the asset block is false
SkipImages ==
    /\ pc = "images"
    /\ ~WantImages
    /\ pc' = "finally"
    /\ UNCHANGED <<has_olefile, file_path, container, extract_images, image_dir, ole_open,
                   is_compressed, section_idx, parts, metadata, images,
                   img_index, list_pos, outcome, reads, opens, loop_done, written, partial, stream_log>>
    /\ UNCHANGED <<walk_vars, ext_vars>>

\* the loop over ole.listdir() is over
AssetsDone ==
    /\ pc = "images"
    /\ WantImages
    /\ list_pos = Len(ListDir(container))
    /\ pc' = "finally"
    /\ UNCHANGED <<has_olefile, file_path, container, extract_images, image_dir, ole_open,
                   is_compressed, section_idx, parts, metadata, images,
                   img_index, list_pos, outcome, reads, opens, loop_done, written, partial, stream_log>>
    /\ UNCHANGED <<walk_vars, ext_vars>>

\* a stream whose path does not start with "BinData/"
AssetSkipStream ==
    /\ AtListEntry
    /\ ListEntry[1] # "BinData"
    /\ list_pos' = list_pos + 1
    /\ UNCHANGED <<has_olefile, file_path, container, extract_images, image_dir, ole_open,
                   is_compressed, section_idx, parts, metadata, images,
                   img_index, pc, outcome, reads, opens, loop_done, written, partial, stream_log>>
    /\ UNCHANGED <<walk_vars, ext_vars>>

\* ole.openstream(stream_path).read() raises; except Exception swallows it
AssetReadFails ==
    /\ AtListEntry
    /\ ListEntry[1] = "BinData"
    /\ ~BinEntry.readable
    /\ reads' = Append(reads, ListEntry)
    /\ img_index' = AssetFailed(img_index)
    /\ list_pos' = list_pos + 1
    /\ UNCHANGED <<has_olefile, file_path, container, extract_images, image_dir, ole_open,
                   is_compressed, section_idx, parts, metadata, images,
                   pc, outcome, opens, loop_done, written, partial, stream_log>>
    /\ UNCHANGED <<walk_vars, ext_vars>>

\* what a write_bytes that raises leaves of the file once it is created:
\* the bytes written before the failure, any prefix of the data
PartialData(img_data) == {SubSeq(img_data, 1, n) : n \in 0..Len(img_data)}

\* the files on disk left by failed writes, but for the one at path
Replaced(files, path) == {f \in files : f.path # path}

\* save_image raises (the directory or the file cannot be made, or the write
\* fails part-way and leaves the file); except Exception swallows it
AssetWriteFails ==
    /\ AtListEntry
    /\ ListEntry[1] = "BinData"
    /\ BinEntry.readable
    /\ reads' = Append(reads, ListEntry)
    /\ stream_log' =
          Append(stream_log,
                 StreamEntry(ListEntry, is_compressed, "save_image",
                             AssetData(BinEntry.bytes, is_compressed)))
    /\ LET img_data == AssetData(BinEntry.bytes, is_compressed)
           filename == GenerateImageFilename(file_path.stem, img_index,
                                             GuessImageExt(img_data))
           path     == JoinPath(image_dir.path, filename)
       IN  \/ partial' = partial
           \/ \E left \in PartialData(img_data) :
                 partial' = Replaced(partial, path) \cup
                                {[path |-> path, data |-> left]}
    /\ img_index' = AssetFailed(img_index)
    /\ list_pos' = list_pos + 1
    /\ UNCHANGED <<has_olefile, file_path, container, extract_images, image_dir, ole_open,
                   is_compressed, section_idx, parts, metadata, images,
                   pc, outcome, opens, loop_done, written>>
    /\ UNCHANGED <<walk_vars, ext_vars>>

\* the asset is written and listed; img_index += 1
AssetSaved ==
    /\ AtListEntry
    /\ ListEntry[1] = "BinData"
    /\ BinEntry.readable
    /\ reads' = Append(reads, ListEntry)
    /\ LET img_data == AssetData(BinEntry.bytes, is_compressed)
           filename == GenerateImageFilename(file_path.stem, img_index,
                                             GuessImageExt(img_data))
       IN  /\ written' = Append(written,
                                [path |-> JoinPath(image_dir.path, filename),
                                 data |-> img_data])
           /\ images' = Append(images,
                               [path |-> JoinPath(image_dir.path, filename),
                                alt  |-> AltText(img_index),
                                page |-> 0])
           /\ partial' = Replaced(partial, JoinPath(image_dir.path, filename))
    /\ stream_log' =
          Append(stream_log,
                 StreamEntry(ListEntry, is_compressed, "save_image",
                             AssetData(BinEntry.bytes, is_compressed)))
    /\ img_index' = img_index + 1
    /\ list_pos' = list_pos + 1
    /\ UNCHANGED <<has_olefile, file_path, container, extract_images, image_dir, ole_open,
                   is_compressed, section_idx, parts, metadata, pc, outcome,
                   opens, loop_done>>
    /\ UNCHANGED <<walk_vars, ext_vars>>

\* NoParts that asks every visited section for text
MutNoParts(ps) == Len(ps) < section_idx

\* not parts
NoParts(ps) == ps = <<>>

\* finally: ole.close(); then raise ParserError(...) since parts is empty
RaiseNoText ==
    /\ pc = "finally"
    /\ NoParts(parts)
    /\ Finally(FALSE)
    /\ pc' = "done"
    /\ outcome' = NoTextError(file_path)
    /\ UNCHANGED <<has_olefile, file_path, container, extract_images, image_dir,
                   is_compressed, section_idx, parts, metadata, images,
                   img_index, list_pos, reads, opens, loop_done, written, partial, stream_log>>
    /\ UNCHANGED <<walk_vars, ext_vars>>

\* finally: ole.close(); then return ParseResult(...)
ReturnResult ==
    /\ pc = "finally"
    /\ ~NoParts(parts)
    /\ Finally(FALSE)
    /\ pc' = "done"
    /\ outcome' = Returned(parts, metadata, images)
    /\ UNCHANGED <<has_olefile, file_path, container, extract_images, image_dir,
                   is_compressed, section_idx, parts, metadata, images,
                   img_index, list_pos, reads, opens, loop_done, written, partial, stream_log>>
    /\ UNCHANGED <<walk_vars, ext_vars>>

(***************************************************************************)
(* Spec: one call of _parse_hwp                                            *)
(***************************************************************************)
\* the two paths
PathA == CHOOSE p \in Paths : p.parent = <<>>

PathB == CHOOSE p \in Paths : p.parent # <<>>

SummaryRaises == CHOOSE m \in Summaries : m.raises

SummaryProps == CHOOSE m \in Summaries : ~m.raises

ImgDir == CHOOSE d \in ImageDirs : ~d.none

\* the BinData streams of a file with n of them
Bin(n) == CHOOSE bs \in BinDataSets : Len(bs) = n

Call(p, e, dir, m, bs) ==
    [file_path |-> p, extract_images |-> e, image_dir |-> dir,
     summary |-> m, bindata |-> bs]

\* How a call combines path, extract_images, image_dir, the summary
\* properties and the BinData streams: four calls that extract assets and
\* three that do not.
CallSettings ==
    { Call(PathA, TRUE,  ImgDir, SummaryProps,  Bin(0)),
      Call(PathA, TRUE,  ImgDir, SummaryProps,  Bin(1)),
      Call(PathB, TRUE,  ImgDir, SummaryRaises, Bin(1)),
      Call(PathB, TRUE,  ImgDir, SummaryProps,  Bin(2)),
      Call(PathA, FALSE, ImgDir, SummaryProps,  Bin(1)),
      Call(PathB, TRUE,  NoDir,  SummaryRaises, Bin(2)),
      Call(PathA, FALSE, NoDir,  SummaryRaises, Bin(0)),
      Call(PathA, TRUE,  ImgDir, SummaryRaises, Bin(2)),
      Call(PathB, TRUE,  ImgDir, SummaryProps,  Bin(3)) }

\* the section streams of the files whose FileHeader is missing or short
FewSections == [1..MaxSections -> {NoStream, Stream(PlainSection(<<65>>))}]

AllSections == [1..MaxSections -> SectionStreams]

\* One call of _parse_hwp: on a file that is no compound file, on a compound
\* file whose FileHeader is missing or short, or on a compound file with a
\* FileHeader and any section streams.
Init ==
    /\ \/ /\ container = NotOleFile
          /\ file_path \in Paths
          /\ extract_images \in BOOLEAN
          /\ image_dir \in ImageDirs
       \/ \E s \in CallSettings :
            /\ file_path = s.file_path
            /\ extract_images = s.extract_images
            /\ image_dir = s.image_dir
            /\ \/ \E h \in BadHeaders, ss \in FewSections :
                     container = OleFile(h, ss, s.summary, s.bindata)
               \/ \E h \in GoodHeaders, ss \in AllSections :
                     container = OleFile(h, ss, s.summary, s.bindata)
    /\ StreamsKnown(container)
    /\ has_olefile \in BOOLEAN
    /\ pc = "start"
    /\ ParseLocals
    /\ WalkIdle
    /\ ExtIdle

Next ==
    \/ ImportFails
    \/ CheckNotOle
    \/ OpenOle
    \/ HeaderMissing
    \/ HeaderShort
    \/ ReadFileHeader
    \/ SectionLoopExit
    \/ SectionReadFails
    \/ SectionInflateFails
    \/ SectionExtract
    \/ ReadMetadata
    \/ SkipImages
    \/ AssetsDone
    \/ AssetSkipStream
    \/ AssetReadFails
    \/ AssetWriteFails
    \/ AssetSaved
    \/ RaiseNoText
    \/ ReturnResult

Spec == Init /\ [][Next]_vars

(***************************************************************************)
(* postprocess/cleaner.py                                                  *)
(***************************************************************************)
\* how many line breaks s starts with
RECURSIVE LeadingBreaks(_)
LeadingBreaks(s) ==
    IF s # <<>> /\ Head(s) = LF THEN 1 + LeadingBreaks(Tail(s)) ELSE 0

\* s without its first n elements
Drop(s, n) == IF n >= Len(s) THEN <<>> ELSE SubSeq(s, n + 1, Len(s))

\* re.sub(r"\n{4,}", "\n\n\n", content)
RECURSIVE CollapseBlankLines(_)
CollapseBlankLines(s) ==
    IF s = <<>> THEN <<>>
    ELSE LET n == LeadingBreaks(s)
         IN  IF n >= 4 THEN <<LF, LF, LF>> \o CollapseBlankLines(Drop(s, n))
             ELSE <<Head(s)>> \o CollapseBlankLines(Tail(s))

\* U+FFFD
ReplacementChar == 65533

\* content.replace("\ufffd", "").replace("\x00", "")
FixBrokenEncoding(s) == SelectSeq(s, LAMBDA c : c # ReplacementChar /\ c # 0)

\* content.split("\n")
RECURSIVE SplitLines(_)
SplitLines(s) ==
    IF \A k \in 1..Len(s) : s[k] # LF THEN <<s>>
    ELSE LET p == CHOOSE k \in 1..Len(s) :
                      s[k] = LF /\ \A j \in 1..(k - 1) : s[j] # LF
         IN  <<SubSeq(s, 1, p - 1)>> \o SplitLines(Drop(s, p))

\* "\n".join(line.rstrip() for line in content.split("\n"))
StripTrailingWhitespace(s) ==
    LET lines == SplitLines(s)
    IN  Join(<<LF>>, [k \in 1..Len(lines) |-> RStrip(lines[k])])

\* clean_markdown(content)
CleanMarkdown(s) ==
    StripTrailingWhitespace(FixBrokenEncoding(CollapseBlankLines(s)))

(***************************************************************************)
(* postprocess/formatter.py                                                *)
(***************************************************************************)
\* "#"
Hash == 35

\* how many "#" the line starts with
RECURSIVE LeadingHashes(_)
LeadingHashes(line) ==
    IF line # <<>> /\ Head(line) = Hash THEN 1 + LeadingHashes(Tail(line)) ELSE 0

\* the most "#" a heading starts with
MaxHeading == 6

\* one line under re.sub(r"^(#{1,6})([^ #\n])", r"\1 \2", ..., re.MULTILINE):
\* a space goes between 1 to 6 "#" and a next character that is no space
NormalizeHeadingLine(line) ==
    LET h == LeadingHashes(line)
    IN  IF h >= 1 /\ h <= MaxHeading /\ Len(line) > h /\ line[h + 1] # 32
        THEN SubSeq(line, 1, h) \o <<32>> \o Drop(line, h)
        ELSE line

\* _normalize_headings(content)
NormalizeHeadings(s) ==
    LET lines == SplitLines(s)
    IN  Join(<<LF>>, [k \in 1..Len(lines) |-> NormalizeHeadingLine(lines[k])])

\* bool(re.match(r"^#{1,6}\s", line))
IsHeading(line) ==
    LET h == LeadingHashes(line)
    IN  h >= 1 /\ h <= MaxHeading /\ Len(line) > h /\ IsSpace(line[h + 1])

\* the loop of _ensure_heading_spacing from line k on, with `acc` collected
RECURSIVE HeadingSpacingFrom(_, _, _)
HeadingSpacingFrom(lines, k, acc) ==
    IF k > Len(lines) THEN acc
    ELSE LET before == IF IsHeading(lines[k]) /\ acc # <<>>
                          /\ Strip(acc[Len(acc)]) # <<>>
                       THEN <<<<>>>> ELSE <<>>
             after  == IF IsHeading(lines[k]) /\ k < Len(lines)
                          /\ Strip(lines[k + 1]) # <<>>
                       THEN <<<<>>>> ELSE <<>>
         IN  HeadingSpacingFrom(lines, k + 1, acc \o before \o <<lines[k]>> \o after)

\* _ensure_heading_spacing(content)
EnsureHeadingSpacing(s) == Join(<<LF>>, HeadingSpacingFrom(SplitLines(s), 1, <<>>))

\* how many whitespace characters s starts with
RECURSIVE LeadingSpaces(_)
LeadingSpaces(s) ==
    IF s # <<>> /\ IsSpace(Head(s)) THEN 1 + LeadingSpaces(Tail(s)) ELSE 0

\* re.sub(r"^(\s*)[*+]\s", r"\1- ", content, flags=re.MULTILINE) from offset
\* p on: at the start of a line, whitespace (line breaks included), "*" or
\* "+", and one whitespace character become the whitespace, "-" and a space
RECURSIVE ListMarkersFrom(_, _)
ListMarkersFrom(s, p) ==
    IF p >= Len(s) THEN <<>>
    ELSE LET w == LeadingSpaces(Drop(s, p))
         IN  IF /\ (p = 0 \/ s[p] = LF)
                /\ p + w + 2 <= Len(s)
                /\ s[p + w + 1] \in {42, 43}
                /\ IsSpace(s[p + w + 2])
             THEN SubSeq(s, p + 1, p + w) \o <<45, 32>> \o ListMarkersFrom(s, p + w + 2)
             ELSE <<s[p + 1]>> \o ListMarkersFrom(s, p + 1)

\* _normalize_list_markers(content)
NormalizeListMarkers(s) == ListMarkersFrom(s, 0)

\* format_markdown(content)
FormatMarkdown(s) == NormalizeListMarkers(EnsureHeadingSpacing(NormalizeHeadings(s)))

(***************************************************************************)
(* converter.py: _build_output                                             *)
(***************************************************************************)
\* a str value and an int value of a metadata mapping
StrValue(s) == [kind |-> "str", s |-> s, n |-> 0]

IntValue(n) == [kind |-> "int", s |-> <<>>, n |-> n]

\* f"{value}"
FormatValue(v) == IF v.kind = "int" THEN Decimal(v.n) ELSE v.s

\* "---"
Fence == <<45, 45, 45>>

\* f"{key}: {value}" for the entries of the mapping from entry k on
RECURSIVE MetadataLines(_, _)
MetadataLines(md, k) ==
    IF k > Len(md) THEN <<>>
    ELSE <<md[k].key \o <<58, 32>> \o FormatValue(md[k].value)>>
         \o MetadataLines(md, k + 1)

\* BuildOutput that writes the header also for an empty mapping
MutFrontMatter(md, omit) == ~omit

\* if not no_metadata and result.metadata
FrontMatter(md, omit) == ~omit /\ md # <<>>

\* _build_output(result, no_metadata), with omit for no_metadata
BuildOutput(res, omit) ==
    LET head == IF FrontMatter(res.metadata, omit)
                THEN <<Fence>> \o MetadataLines(res.metadata, 1) \o <<Fence>> \o <<<<>>>>
                ELSE <<>>
    IN  Join(<<LF>>, head \o <<res.content>>)

(***************************************************************************)
(* utils/file_detect.py and the parser registry of converter.py            *)
(***************************************************************************)
\* no value (None)
None == "None"

\* file_path.suffix.lower() for the suffixes of the model
LowerSuffix(suffix) == IF suffix = ".HWP" THEN ".hwp" ELSE suffix

\* EXTENSION_TO_TYPE.get(ext)
ExtensionToType(ext) ==
    CASE ext = ".pdf" -> "pdf"
      [] ext \in {".docx", ".doc"} -> "docx"
      [] ext = ".hwp" -> "hwp"
      [] ext = ".hwpx" -> "hwpx"
      [] ext \in {".pptx", ".ppt"} -> "pptx"
      [] ext \in {".xlsx", ".xls"} -> "xlsx"
      [] ext = ".csv" -> "csv"
      [] ext \in {".html", ".htm"} -> "html"
      [] ext = ".epub" -> "epub"
      [] ext \in {".txt", ".rtf", ".md"} -> "text"
      [] ext \in {".png", ".jpg", ".jpeg", ".tiff", ".tif", ".bmp", ".gif", ".webp"}
            -> "image"
      [] OTHER -> None

\* _detect_by_extension(file_path)
DetectByExtension(path) == ExtensionToType(LowerSuffix(path.suffix))

\* detect_file_type that prefers the extension's type to the MIME type
MutDetectFileType(path, mime_type) ==
    LET ext_type == ExtensionToType(LowerSuffix(path.suffix))
    IN  IF ext_type # None THEN [ok |-> TRUE, type |-> ext_type]
        ELSE IF mime_type # None THEN [ok |-> TRUE, type |-> mime_type]
        ELSE [ok |-> FALSE, type |-> None]

\* detect_file_type(file_path), given what _detect_by_magic returned:
\* the type, or ValueError
DetectFileType(path, mime_type) ==
    LET ext_type == DetectByExtension(path)
    IN  IF mime_type # None /\ ext_type # None THEN [ok |-> TRUE, type |-> mime_type]
        ELSE IF mime_type # None THEN [ok |-> TRUE, type |-> mime_type]
        ELSE IF ext_type # None THEN [ok |-> TRUE, type |-> ext_type]
        ELSE [ok |-> FALSE, type |-> None]

(***************************************************************************)
(* converter.py: convert_file                                              *)
(*                                                                         *)
(* A path is its directory (a sequence of names), its stem and its suffix; *)
(* a relative path is resolved against the working directory.  The file    *)
(* system is the set of directories that exist and the files written.      *)
(***************************************************************************)
NoPath == [none |-> TRUE, abs |-> FALSE, dir |-> <<>>, stem |-> "", suffix |-> ""]

FilePath(abs, dir, stem, suffix) ==
    [none |-> FALSE, abs |-> abs, dir |-> dir, stem |-> stem, suffix |-> suffix]

\* the working directory
Cwd == <<"work">>

\* Path(p).resolve()
Resolve(p) == IF p.abs THEN p ELSE [p EXCEPT !.abs = TRUE, !.dir = Cwd \o p.dir]

\* p.with_suffix(suffix)
WithSuffix(p, suffix) == [p EXCEPT !.suffix = suffix]

\* the directories mkdir(parents=True, exist_ok=True) makes sure of
DirAndParents(dir) == { SubSeq(dir, 1, n) : n \in 1..Len(dir) }

\* the UTF-8 bytes of one code point (up to U+10FFFF) that is no surrogate
Utf8Char(c) ==
    IF c < 128 THEN <<c>>
    ELSE IF c < 2048 THEN <<192 + (c \div 64), 128 + (c % 64)>>
    ELSE IF c < 65536
    THEN <<224 + (c \div 4096), 128 + ((c \div 64) % 64), 128 + (c % 64)>>
    ELSE <<240 + (c \div 262144), 128 + ((c \div 4096) % 64),
           128 + ((c \div 64) % 64), 128 + (c % 64)>>

\* a code point "utf-8" cannot encode
IsSurrogate(c) == c >= 55296 /\ c <= 57343

\* content.encode("utf-8"): the bytes, or UnicodeEncodeError
RECURSIVE Utf8Bytes(_)
Utf8Bytes(s) == IF s = <<>> THEN <<>> ELSE Utf8Char(Head(s)) \o Utf8Bytes(Tail(s))

Utf8Encode(s) ==
    IF \E k \in 1..Len(s) : IsSurrogate(s[k]) THEN [ok |-> FALSE, bytes |-> <<>>]
    ELSE [ok |-> TRUE, bytes |-> Utf8Bytes(s)]

\* the UTF-16 code units of one code point, the low byte first
Utf16Char(c) ==
    IF c < 65536 THEN <<c % 256, c \div 256>>
    ELSE LET high == 55296 + ((c - 65536) \div 1024)
             low  == 56320 + ((c - 65536) % 1024)
         IN  <<high % 256, high \div 256, low % 256, low \div 256>>

RECURSIVE Utf16Bytes(_)
Utf16Bytes(s) == IF s = <<>> THEN <<>> ELSE Utf16Char(Head(s)) \o Utf16Bytes(Tail(s))

\* the "cp949" bytes of one code point, <<>> for one the codec cannot
\* encode; the table holds the code points of the model's texts (ASCII,
\* U+0080, U+00A0, U+00E9, U+20AC, U+AC00, U+D7A3, U+FFFD, U+1F600, the
\* surrogates)
Cp949Char(c) ==
    CASE c < 128   -> <<c>>
      [] c = 8364  -> <<162, 230>>
      [] c = 44032 -> <<176, 161>>
      [] c = 55203 -> <<198, 82>>
      [] c \in {128, 160, 233, 65533, 128512} \/ IsSurrogate(c) -> <<>>

RECURSIVE Cp949Bytes(_)
Cp949Bytes(s) == IF s = <<>> THEN <<>> ELSE Cp949Char(Head(s)) \o Cp949Bytes(Tail(s))

\* the "latin-1" bytes: one byte per code point below U+0100
RECURSIVE Latin1Bytes(_)
Latin1Bytes(s) == IF s = <<>> THEN <<>> ELSE <<Head(s)>> \o Latin1Bytes(Tail(s))

\* the codec names of the model that Python knows
KnownEncodings == {"utf-8", "utf-8-sig", "utf-16", "utf-16-le", "ascii",
                   "cp949", "latin-1"}

\* a name Python knows no codec for: open() raises LookupError
UnknownEncodings == {"foo"}

\* the codec can encode the code point
Encodable(c, encoding) ==
    CASE encoding = "ascii" -> c < 128
      [] encoding = "latin-1" -> c < 256
      [] encoding = "cp949" -> Cp949Char(c) # <<>>
      [] encoding \in {"utf-8", "utf-8-sig", "utf-16", "utf-16-le"} ->
             ~IsSurrogate(c)

\* content.encode(encoding) for the codec names of the model, those of
\* KnownEncodings and of UnknownEncodings: the bytes (with the byte order
\* mark of "utf-8-sig" and "utf-16"), or the exception
Encode(s, encoding) ==
    CASE encoding \in UnknownEncodings ->
             [ok |-> FALSE, error |-> "LookupError", bytes |-> <<>>]
      [] encoding \in KnownEncodings ->
             IF \E k \in 1..Len(s) : ~Encodable(s[k], encoding)
             THEN [ok |-> FALSE, error |-> "UnicodeEncodeError", bytes |-> <<>>]
             ELSE [ok |-> TRUE, error |-> "",
                   bytes |-> CASE encoding = "utf-8-sig" ->
                                      <<239, 187, 191>> \o Utf8Bytes(s)
                               [] encoding = "utf-16" ->
                                      <<255, 254>> \o Utf16Bytes(s)
                               [] encoding = "utf-16-le" -> Utf16Bytes(s)
                               [] encoding = "cp949" -> Cp949Bytes(s)
                               [] encoding = "latin-1" -> Latin1Bytes(s)
                               [] OTHER -> Utf8Bytes(s)]

\* f"{output_path.stem}_images" for the stems of the model
ImagesName(stem) ==
    CASE stem = "doc"    -> "doc_images"
      [] stem = "pic"    -> "pic_images"
      [] OTHER           -> "result_images"

\* _default_image_dir(output_path)
DefaultImageDir(out) == out.dir \o <<ImagesName(out.stem)>>

\* image_dir or _default_image_dir(output_path)
ImageDirOf(opts, out) ==
    IF opts.image_dir.none THEN DefaultImageDir(out) ELSE opts.image_dir.dir

\* generate_image_filename(file_path.stem, 0, ".png") without the suffix,
\* for the stems of the model
ImageStem(stem) ==
    CASE stem = "doc" -> "doc_img_000"
      [] OTHER        -> "pic_img_000"

\* what convert_file returned or raised
ConvRaised(kind, path) == [kind |-> kind, path |-> path]

ConvReturned(path) == [kind |-> "return", path |-> path]

\* the content after the optional post-processing
PostProcess(s, do_clean) == IF do_clean THEN FormatMarkdown(CleanMarkdown(s)) ELSE s

\* ---- the calls of the model ----
\* parse results: content and metadata (entries in mapping order)
Entry(key, value) == [key |-> key, value |-> value]

ParseResultOf(body, md) == [content |-> body, metadata |-> md]

\* the parameters of a call
Options(want, dir, encoding) ==
    [extract_images |-> want, image_dir |-> dir, encoding |-> encoding]

NoImageDir == [none |-> TRUE, dir |-> <<>>]

GivenDir == [none |-> FALSE, dir |-> <<"data", "img">>]

DefaultOptions == Options(FALSE, NoImageDir, "utf-8")

\* the default parameters; images asked for, below the default directory
\* and below a given one; the other encodings, "foo" for a name Python
\* does not know; images asked for and an encoding that fails
OptionSet ==
    { DefaultOptions,
      Options(TRUE, NoImageDir, "utf-8"),
      Options(TRUE, GivenDir, "utf-8"),
      Options(FALSE, NoImageDir, "utf-8-sig"),
      Options(FALSE, NoImageDir, "utf-16"),
      Options(FALSE, NoImageDir, "ascii"),
      Options(FALSE, NoImageDir, "cp949"),
      Options(FALSE, NoImageDir, "latin-1"),
      Options(FALSE, NoImageDir, "utf-16-le"),
      Options(FALSE, NoImageDir, "foo"),
      Options(TRUE, NoImageDir, "ascii") }

\* the bytes of the image of a document
ImageData == <<137, 80, 78, 71>>

\* "title", "author", "pages"
KeyTitle == <<116, 105, 116, 108, 101>>

KeyAuthor == <<97, 117, 116, 104, 111, 114>>

KeyPages == <<112, 97, 103, 101, 115>>

MetadataSet ==
    { <<>>,
      <<Entry(KeyTitle, StrValue(<<84, 101, 115, 116>>)),
        Entry(KeyAuthor, StrValue(<<75, 105, 109>>))>>,
      <<Entry(KeyAuthor, StrValue(<<75, 105, 109>>)),
        Entry(KeyTitle, StrValue(<<>>))>>,
      <<Entry(KeyPages, IntValue(12))>> }

\* "", "# Hello", "#Hi\n* a  \n\n\n\n\nb", "A\n\nB", a text with U+FFFD,
\* NUL and U+AC00, a text with a lone surrogate, "a\n\n \n\nb",
\* "a\n\n\ufffd\n\nb", "a" with U+AC00, with U+1F600 and with U+00E9
ContentSet ==
    { <<>>,
      <<35, 32, 72, 101, 108, 108, 111>>,
      <<35, 72, 105, 10, 42, 32, 97, 32, 32, 10, 10, 10, 10, 10, 98>>,
      <<65, 10, 10, 66>>,
      <<65533, 97, 0, 44032>>,
      <<97, 55296>>,
      <<97, 10, 10, 32, 10, 10, 98>>,
      <<97, 10, 10, 65533, 10, 10, 98>>,
      <<97, 44032>>,
      <<97, 128512>>,
      <<97, 233>> }

ParseResults == { ParseResultOf(b, md) : b \in ContentSet, md \in MetadataSet }

\* the exceptions the parsers raise: ParserError, and those they let out
\* (of the HWPX reader: zlib.error of zf.read, ValueError and RecursionError
\* of ET.fromstring and of the walk over the elements)
ParseErrors == {"ParserError", "zlib.error", "ValueError", "RecursionError"}

\* what parser.parse does: returns a result or raises, and the number of
\* images it saves before that when they are asked for
ParseOutcomes ==
    { [ok |-> TRUE, error |-> "", result |-> r, images |-> n] :
          r \in ParseResults, n \in {0, 1} }
    \cup { [ok |-> FALSE, error |-> e, result |-> ParseResultOf(<<>>, <<>>),
            images |-> n] : e \in ParseErrors, n \in {0, 1} }

\* the results with which the parameters other than the default ones are
\* combined: "A\n\nB", the texts outside ASCII, among them "a" with U+00E9,
\* and the text with a lone surrogate, without metadata
PlainResults ==
    { ParseResultOf(b, <<>>) :
        b \in { <<65, 10, 10, 66>>, <<65533, 97, 0, 44032>>, <<97, 55296>>,
                <<97, 44032>>, <<97, 128512>>, <<97, 233>> } }

\* the types register_parser is called with
ExtraTypes == {"image"}

InputPaths ==
    { FilePath(TRUE, <<"data">>, "doc", ".hwp"),
      FilePath(FALSE, <<"in">>, "doc", ".HWP"),
      FilePath(TRUE, <<"data">>, "pic", ".png"),
      FilePath(TRUE, <<"data">>, "doc", ".xyz") }

OutputPaths == { NoPath, FilePath(FALSE, <<"out", "md">>, "result", ".md") }

\* what _detect_by_magic returns: None or a type of MIME_TO_TYPE
MimeTypes == { None, "hwp", "pdf" }

\* the directories that exist before the call
InitialDirs == { Cwd, Cwd \o <<"in">>, <<"data">> }

InitConvert ==
    /\ input_path \in InputPaths
    /\ output_path \in OutputPaths
    /\ no_metadata \in BOOLEAN
    /\ clean \in BOOLEAN
    /\ cenv \in [exists : BOOLEAN, mime : MimeTypes, parse : ParseOutcomes]
    /\ options \in OptionSet
    /\ \/ options = DefaultOptions /\ cenv.parse.images = 0
       \/ /\ ~no_metadata
          /\ ~clean
          /\ cenv.parse.result \in PlainResults \cup {ParseResultOf(<<>>, <<>>)}
    /\ registry \in {{}, RegisteredTypes}
    /\ cpc = "start"
    /\ file_type = None
    /\ result = ParseResultOf(<<>>, <<>>)
    /\ content = <<>>
    /\ built = <<>>
    /\ cleaned = <<>>
    /\ fs_dirs = InitialDirs
    /\ fs_files = {}
    /\ conv_outcome = ConvRaised("none", NoPath)
    /\ calls = <<>>
    /\ WalkIdle
    /\ ParseIdle
    /\ DecodeIdle
    /\ MoreIdle

\* the variables convert_file leaves alone
not_conv == <<walk_vars, parse_vars, dec_vars, more_vars>>

\* convert_file ends by raising `kind`
ConvFail(kind, path) ==
    /\ cpc' = "done"
    /\ conv_outcome' = ConvRaised(kind, path)

\* NotFound that takes every input file for present
MutNotFound(found) == FALSE

\* if not input_path.exists()
NotFound(found) == ~found

\* register_parser(file_type, parser_class) before the call
RegisterParser ==
    /\ cpc = "start"
    /\ \E t \in ExtraTypes : registry' = registry \cup {t}
    /\ UNCHANGED <<input_path, output_path, no_metadata, clean, cenv, cpc,
                   file_type, result, content, built, cleaned, fs_dirs,
                   fs_files, conv_outcome, calls, options, not_conv>>

\* input_path = Path(input_path).resolve(); the file is missing:
\* raise FileNotFoundError
ConvertMissing ==
    /\ cpc = "start"
    /\ NotFound(cenv.exists)
    /\ input_path' = Resolve(input_path)
    /\ ConvFail("FileNotFoundError", Resolve(input_path))
    /\ UNCHANGED <<output_path, no_metadata, clean, cenv, file_type, result,
                   content, built, cleaned, fs_dirs, fs_files, calls>>
    /\ UNCHANGED <<options, registry, not_conv>>

\* the file exists: output_path defaults to input_path.with_suffix(".md")
\* and is resolved
ConvertResolve ==
    /\ cpc = "start"
    /\ ~NotFound(cenv.exists)
    /\ input_path' = Resolve(input_path)
    /\ output_path' = Resolve(IF output_path.none
                              THEN WithSuffix(Resolve(input_path), ".md")
                              ELSE output_path)
    /\ cpc' = "detect"
    /\ UNCHANGED <<no_metadata, clean, cenv, file_type, result, content, built, cleaned,
                   fs_dirs, fs_files, conv_outcome, calls>>
    /\ UNCHANGED <<options, registry, not_conv>>

\* file_type = detect_file_type(input_path) raises ValueError
ConvertDetectFails ==
    /\ cpc = "detect"
    /\ ~DetectFileType(input_path, cenv.mime).ok
    /\ calls' = Append(calls, "detect_file_type")
    /\ ConvFail("ValueError", input_path)
    /\ UNCHANGED <<input_path, output_path, no_metadata, clean, cenv, file_type,
                   result, content, built, cleaned, fs_dirs, fs_files>>
    /\ UNCHANGED <<options, registry, not_conv>>

\* file_type = detect_file_type(input_path)
ConvertDetect ==
    /\ cpc = "detect"
    /\ DetectFileType(input_path, cenv.mime).ok
    /\ calls' = Append(calls, "detect_file_type")
    /\ file_type' = DetectFileType(input_path, cenv.mime).type
    /\ cpc' = "parser"
    /\ UNCHANGED <<input_path, output_path, no_metadata, clean, cenv, result,
                   content, built, cleaned, fs_dirs, fs_files, conv_outcome>>
    /\ UNCHANGED <<options, registry, not_conv>>

\* parser = get_parser(file_type): _ensure_parsers_loaded() fills an empty
\* registry; the type has no parser: UnsupportedFormatError
ConvertNoParser ==
    /\ cpc = "parser"
    /\ file_type \notin EnsureParsersLoaded(registry)
    /\ registry' = EnsureParsersLoaded(registry)
    /\ calls' = Append(calls, "get_parser")
    /\ ConvFail("UnsupportedFormatError", input_path)
    /\ UNCHANGED <<input_path, output_path, no_metadata, clean, cenv, file_type,
                   result, content, built, cleaned, fs_dirs, fs_files>>
    /\ UNCHANGED <<options, not_conv>>

\* parser = get_parser(file_type)
ConvertGetParser ==
    /\ cpc = "parser"
    /\ file_type \in EnsureParsersLoaded(registry)
    /\ registry' = EnsureParsersLoaded(registry)
    /\ calls' = Append(calls, "get_parser")
    /\ cpc' = "parse"
    /\ UNCHANGED <<input_path, output_path, no_metadata, clean, cenv, file_type,
                   result, content, built, cleaned, fs_dirs, fs_files, conv_outcome>>
    /\ UNCHANGED <<options, not_conv>>

\* the files parser.parse(input_path, extract_images=extract_images,
\* image_dir=image_dir or _default_image_dir(output_path), ...) saves, and
\* the directories save_image makes for them
ParserFiles ==
    IF options.extract_images /\ cenv.parse.images > 0
    THEN {[path |-> FilePath(TRUE, ImageDirOf(options, output_path),
                             ImageStem(input_path.stem), ".png"),
           data |-> ImageData]}
    ELSE {}

ParserDirs ==
    IF ParserFiles = {} THEN {}
    ELSE DirAndParents(ImageDirOf(options, output_path))

\* result = parser.parse(input_path, ...) raises ParserError or another
\* exception, after the images it has saved; convert_file catches none
ConvertParseFails ==
    /\ cpc = "parse"
    /\ ~cenv.parse.ok
    /\ calls' = Append(calls, "parse")
    /\ fs_dirs' = fs_dirs \cup ParserDirs
    /\ fs_files' = fs_files \cup ParserFiles
    /\ ConvFail(cenv.parse.error, input_path)
    /\ UNCHANGED <<input_path, output_path, no_metadata, clean, cenv, file_type,
                   result, content, built, cleaned>>
    /\ UNCHANGED <<options, registry, not_conv>>

\* result = parser.parse(input_path, ...); content = _build_output(result,
\* no_metadata=no_metadata); if clean: content =
\* format_markdown(clean_markdown(content))
ConvertParse ==
    /\ cpc = "parse"
    /\ cenv.parse.ok
    /\ calls' = Append(calls, "parse")
    /\ result' = cenv.parse.result
    /\ built' = BuildOutput(cenv.parse.result, no_metadata)
    /\ cleaned' = IF clean
                   THEN CleanMarkdown(BuildOutput(cenv.parse.result, no_metadata))
                   ELSE <<>>
    /\ content' = PostProcess(BuildOutput(cenv.parse.result, no_metadata), clean)
    /\ fs_dirs' = fs_dirs \cup ParserDirs
    /\ fs_files' = fs_files \cup ParserFiles
    /\ cpc' = "write"
    /\ UNCHANGED <<input_path, output_path, no_metadata, clean, cenv, file_type,
                   conv_outcome>>
    /\ UNCHANGED <<options, registry, not_conv>>

\* the files other than the one at path
OtherFiles(path) == { f \in fs_files : f.path # path }

\* the directories output_path.parent.mkdir(parents=True, exist_ok=True)
\* has made when it raises: the parents above the one it failed on
DirsBeforeFailure(dir) ==
    { DirAndParents(SubSeq(dir, 1, n)) : n \in 0..(Len(dir) - 1) }

\* what a write_text that raises while it writes leaves of the file: the
\* bytes written before the failure, any prefix of the data
WrittenBefore(bytes) == { SubSeq(bytes, 1, n) : n \in 0..Len(bytes) }

\* output_path.parent.mkdir(parents=True, exist_ok=True) raises OSError: a
\* directory that is missing cannot be made
ConvertMkdirFails ==
    /\ cpc = "write"
    /\ output_path.dir \notin fs_dirs
    /\ \E made \in DirsBeforeFailure(output_path.dir) :
          fs_dirs' = fs_dirs \cup made
    /\ ConvFail("OSError", output_path)
    /\ UNCHANGED <<input_path, output_path, no_metadata, clean, cenv, file_type,
                   result, content, built, cleaned, fs_files, calls>>
    /\ UNCHANGED <<options, registry, not_conv>>

\* output_path.parent.mkdir(...); output_path.write_text(content,
\* encoding=encoding) raises OSError when it opens the file: no file is
\* made and none is emptied
ConvertOpenFails ==
    /\ cpc = "write"
    /\ fs_dirs' = fs_dirs \cup DirAndParents(output_path.dir)
    /\ ConvFail("OSError", output_path)
    /\ UNCHANGED <<input_path, output_path, no_metadata, clean, cenv, file_type,
                   result, content, built, cleaned, fs_files, calls>>
    /\ UNCHANGED <<options, registry, not_conv>>

\* output_path.parent.mkdir(parents=True, exist_ok=True);
\* output_path.write_text(content, encoding=encoding) raises LookupError
\* or UnicodeEncodeError after it opened (and emptied) the file
ConvertWriteFails ==
    /\ cpc = "write"
    /\ ~Encode(content, options.encoding).ok
    /\ fs_dirs' = fs_dirs \cup DirAndParents(output_path.dir)
    /\ fs_files' = OtherFiles(output_path) \cup {[path |-> output_path, data |-> <<>>]}
    /\ ConvFail(Encode(content, options.encoding).error, output_path)
    /\ UNCHANGED <<input_path, output_path, no_metadata, clean, cenv, file_type,
                   result, content, built, cleaned, calls>>
    /\ UNCHANGED <<options, registry, not_conv>>

\* output_path.parent.mkdir(...); output_path.write_text(content,
\* encoding=encoding) raises OSError while it writes or closes the file:
\* the file holds the bytes written before
ConvertWriteBreaks ==
    /\ cpc = "write"
    /\ Encode(content, options.encoding).ok
    /\ fs_dirs' = fs_dirs \cup DirAndParents(output_path.dir)
    /\ \E left \in WrittenBefore(Encode(content, options.encoding).bytes) :
          fs_files' = OtherFiles(output_path)
                      \cup {[path |-> output_path, data |-> left]}
    /\ ConvFail("OSError", output_path)
    /\ UNCHANGED <<input_path, output_path, no_metadata, clean, cenv, file_type,
                   result, content, built, cleaned, calls>>
    /\ UNCHANGED <<options, registry, not_conv>>

\* output_path.parent.mkdir(parents=True, exist_ok=True);
\* output_path.write_text(content, encoding=encoding); return output_path
ConvertWrite ==
    /\ cpc = "write"
    /\ Encode(content, options.encoding).ok
    /\ fs_dirs' = fs_dirs \cup DirAndParents(output_path.dir)
    /\ fs_files' = OtherFiles(output_path)
                   \cup {[path |-> output_path,
                          data |-> Encode(content, options.encoding).bytes]}
    /\ cpc' = "done"
    /\ conv_outcome' = ConvReturned(output_path)
    /\ UNCHANGED <<input_path, output_path, no_metadata, clean, cenv, file_type,
                   result, content, built, cleaned, calls>>
    /\ UNCHANGED <<options, registry, not_conv>>

NextConvert ==
    \/ RegisterParser
    \/ ConvertMissing
    \/ ConvertResolve
    \/ ConvertDetectFails
    \/ ConvertDetect
    \/ ConvertNoParser
    \/ ConvertGetParser
    \/ ConvertParseFails
    \/ ConvertParse
    \/ ConvertMkdirFails
    \/ ConvertOpenFails
    \/ ConvertWriteFails
    \/ ConvertWriteBreaks
    \/ ConvertWrite

SpecConvert == InitConvert /\ [][NextConvert]_vars

(***************************************************************************)
(* Reference for the container reader's claims: what each section stream   *)
(* of the model holds, by construction.                                    *)
(***************************************************************************)
\* the file's compression flag: bit 0 of byte 36 of a FileHeader of at least
\* 37 bytes
FileCompressed(c) == c.header \in {FileHeader(40, 1), FileHeader(37, 3)}

\* the text of a section stream: a plain record stream gives its text when no
\* inflation is attempted and does not inflate; a deflated record stream
\* gives its (trimmed) text when inflated and no record when walked as it is
StreamText(st, compressed) ==
    CASE st = Stream(PlainSection(<<65>>)) -> IF compressed THEN <<>> ELSE <<65>>
      [] st = Stream(Deflated(PlainSection(<<65>>))) -> IF compressed THEN <<65>> ELSE <<>>
      [] st = Stream(Deflated(PlainSection(<<66, 10>>))) -> IF compressed THEN <<66>> ELSE <<>>
      [] st = Stream(Deflated(PlainSection(<<10>>))) -> <<>>
      [] OTHER -> <<>>

\* the section stream does not inflate
FailsToInflate(st) ==
    st = Stream(PlainSection(<<65>>))

\* the first section index whose stream is absent
RunLen(c) ==
    CHOOSE k \in 0..Len(c.sections) :
        /\ \A j \in 1..k : c.sections[j].present
        /\ k < Len(c.sections) => ~c.sections[k + 1].present

\* the non-empty texts of sections 0 .. n - 1, in ascending order
RECURSIVE RunTexts(_, _)
RunTexts(c, n) ==
    IF n = 0 THEN <<>>
    ELSE RunTexts(c, n - 1)
         \o (IF StreamText(c.sections[n], FileCompressed(c)) # <<>>
             THEN <<StreamText(c.sections[n], FileCompressed(c))>> ELSE <<>>)

\* the section indices passed to ole.openstream, in call order
RECURSIVE SectionReads(_)
SectionReads(rd) ==
    IF rd = <<>> THEN <<>>
    ELSE (IF Head(rd)[1] = "BodyText" THEN <<Head(rd)[2]>> ELSE <<>>)
         \o SectionReads(Tail(rd))

IsNoTextError(o) == o.kind = "ParserError" /\ o.msg = "no text could be extracted"

IsFormatError(o) == o.kind = "ParserError" /\ o.msg = "not a valid HWP file"

(***************************************************************************)
(* Claims about the container reader (Spec)                                *)
(***************************************************************************)
\* C3: every call that gets past the import of olefile ends by returning a
\* result, by raising the not-a-valid-container error or by raising the
\* no-extractable-text error, both errors naming the input path; no other
\* exception escapes.
C3_ThreeOutcomes ==
    (pc = "done" /\ has_olefile) =>
        \/ outcome.kind = "return"
        \/ IsFormatError(outcome) /\ outcome.path = file_path
        \/ IsNoTextError(outcome) /\ outcome.path = file_path

\* C4: the handle the call opened is closed when the call has returned or
\* raised, on every path, and it is open only between the open and the exit
\* from the try block.
C4_HandleClosed ==
    /\ pc = "done" => ~ole_open
    /\ ole_open => pc \in {"header", "sections", "metadata", "images", "finally"}
    /\ opens <= 1

\* an exception raised while a section is read, after the handle was opened
C4_Witness ==
    /\ pc = "done"
    /\ opens = 1
    /\ ~ole_open
    /\ outcome.kind = "OSError"
    /\ SectionReads(reads) # <<>>

\* C5: a section that fails to inflate contributes no text and stops
\* nothing: when the call gets through the section loop, every section
\* stream before the first absent index has been read, also those after a
\* section that failed to inflate, and a returned content is the texts of the
\* sections that did inflate, in order; with every section failing the call
\* ends in the no-text error.
C5_PartialFailure ==
    (pc = "done" /\ FileCompressed(container)
        /\ (outcome.kind = "return" \/ IsNoTextError(outcome))) =>
        /\ \A k \in 0..(RunLen(container) - 1) :
              /\ \E r \in 1..Len(reads) : reads[r] = SectionName(k)
              /\ FailsToInflate(container.sections[k + 1]) =>
                    StreamText(container.sections[k + 1], TRUE) = <<>>
        /\ outcome.kind = "return" =>
              outcome.content = Join(BlankLine, RunTexts(container, RunLen(container)))
        /\ IsNoTextError(outcome) <=> RunTexts(container, RunLen(container)) = <<>>

\* three sections, the middle one fails to inflate, the content is the text
\* of the other two
C5_Witness ==
    /\ pc = "done"
    /\ outcome.kind = "return"
    /\ FileCompressed(container)
    /\ RunLen(container) = 3
    /\ ~FailsToInflate(container.sections[1])
    /\ FailsToInflate(container.sections[2])
    /\ ~FailsToInflate(container.sections[3])
    /\ outcome.content = <<65, 10, 10, 66>>

\* C6: the section streams are read in ascending index order from 0, none at
\* or after the first absent index k is ever read, the loop ends at k, and a
\* returned content is the non-empty texts of sections 0 .. k-1 in ascending
\* order joined by "\n\n".
C6_SectionOrder ==
    /\ Len(SectionReads(reads)) <= RunLen(container)
    /\ \A r \in 1..Len(SectionReads(reads)) : SectionReads(reads)[r] = r - 1
    /\ loop_done =>
          /\ Len(SectionReads(reads)) = RunLen(container)
          /\ section_idx = RunLen(container)
    /\ (pc = "done" /\ outcome.kind = "return") =>
          /\ loop_done
          /\ outcome.content = Join(BlankLine, RunTexts(container, RunLen(container)))

\* a file with Section0 and Section2 but no Section1: only Section0 is read
C6_Witness ==
    /\ pc = "done"
    /\ outcome.kind = "return"
    /\ RunLen(container) = 1
    /\ container.sections[3].present
    /\ SectionReads(reads) = <<0>>
    /\ outcome.content = <<65>>

\* C7: the call raises the no-extractable-text error exactly when the file
\* is a compound file, the section loop has run to the first absent index,
\* and no section before it gave non-empty text; the message names the input
\* path.
C7_NoTextError ==
    pc = "done" =>
        /\ IsNoTextError(outcome) <=>
              /\ container.is_ole
              /\ loop_done
              /\ RunTexts(container, RunLen(container)) = <<>>
        /\ IsNoTextError(outcome) => outcome.path = file_path

\* every section of a compressed file failed to inflate
C7_Witness ==
    /\ pc = "done"
    /\ IsNoTextError(outcome)
    /\ outcome.path = file_path
    /\ FileCompressed(container)
    /\ RunLen(container) >= 2
    /\ \A k \in 1..RunLen(container) : FailsToInflate(container.sections[k])

\* C8: on a file that is no compound file the call ends at once, no handle
\* is ever opened and no stream is ever read; it ends in the format error
\* that names the path when olefile can be imported, and in the ParserError
\* that asks for olefile, which names no path, when it cannot.
C8_FormatError ==
    ~container.is_ole =>
        /\ pc \in {"start", "done"}
        /\ opens = 0
        /\ ~ole_open
        /\ reads = <<>>
        /\ (pc = "done" /\ has_olefile) =>
              IsFormatError(outcome) /\ outcome.path = file_path
        /\ (pc = "done" /\ ~has_olefile) => outcome = ImportFailed

\* C8 as stated: on a file that is no compound file the call always ends in
\* the format error that names the path.
C8_AsStated ==
    (~container.is_ole /\ pc = "done") =>
        IsFormatError(outcome) /\ outcome.path = file_path

C8_Witness ==
    /\ pc = "done"
    /\ has_olefile
    /\ ~container.is_ole
    /\ IsFormatError(outcome)
    /\ outcome.path = file_path
    /\ opens = 0

(***************************************************************************)
(* Further claims about the walker and the decoder (SpecWalk)              *)
(***************************************************************************)
\* the little-endian 32-bit value of the four bytes of d at offset off
Le32At(d, off) ==
    d[off + 1] + 256 * d[off + 2] + 65536 * d[off + 3] + 16777216 * d[off + 4]

\* C11: every record the walker reads whose 12-bit size field is 0xFFF
\* starts where the encoded record starts, has as its size the little-endian
\* 32-bit value at offset 4 of the record (also when that value is zero or
\* below 0xFFF), hands on a payload of exactly that many bytes taken from
\* offset 8, and moves the cursor by exactly 8 + size: at the loop head
\* after the record the cursor is there.
C11_ExtendedSize ==
    \A k \in 1..Len(rec_log) :
        rec_log[k].size12 = 4095 =>
            /\ recs[k].ext
            /\ rec_log[k].start = RecOffset(recs, k)
            /\ rec_log[k].size = Le32At(data, rec_log[k].start + 4)
            /\ rec_log[k].size = Len(recs[k].payload)
            /\ rec_log[k].payload = recs[k].payload
            /\ rec_log[k].payload =
                  SubSeq(data, rec_log[k].start + 9,
                         rec_log[k].start + 8 + rec_log[k].size)
            /\ rec_log[k].next = rec_log[k].start + 8 + rec_log[k].size
            /\ (k = Len(rec_log) /\ wpc = "loop") => i = rec_log[k].next

\* two records with the 0xFFF size field, of true size 0 and of true size 2
C11_Witness ==
    /\ wpc = "done"
    /\ Len(rec_log) = 2
    /\ rec_log[1].size12 = 4095 /\ rec_log[1].size = 0 /\ rec_log[1].next = 8
    /\ rec_log[2].size12 = 4095 /\ rec_log[2].size = 2 /\ rec_log[2].next = 18
    /\ text = <<66>>
\* C12: for every payload the decoder returns what the code table gives for
\* the payload's 16-bit little-endian codes read in order: code 0 ends the
\* text, a code in {1,2,3,11,12,14,15,16,17,18,21,22,23} gives nothing and
\* takes the next 14 bytes with it, 10 and 13 give a line break, 30 gives
\* U+00A0, every other code below 32 gives nothing, a code from 32 on gives
\* the character of that code point; an odd last byte and a skip that runs
\* past the end end the decoding, and the cursor only ever stands on an even
\* offset.
C12_CodeTable ==
    /\ dpc \in {"loop", "done"} => dec_i % 2 = 0
    /\ dpc = "done" =>
          /\ decoded = TableEmit(PayloadCodes(dec_data))
          /\ decoded = DecodeParaText(dec_data)

\* a non-breaking space, a marker whose 14 bytes are skipped, and the
\* letter after them
C12_Witness ==
    /\ dpc = "done"
    /\ dec_data = CodeBytes(<<30, 11>>) \o InlineBlock \o CodeBytes(<<67>>)
    /\ decoded = <<160, 67>>
    /\ dec_i = Len(dec_data)
\* the non-empty trimmed table texts of the tag-67 records among the first
\* m records of rs, in order
RECURSIVE TableFragments(_, _)
TableFragments(rs, m) ==
    IF m = 0 THEN <<>>
    ELSE TableFragments(rs, m - 1)
         \o (IF rs[m].tag_id = 67 /\ Strip(RecEmit(rs[m])) # <<>>
             THEN <<Strip(RecEmit(rs[m]))>> ELSE <<>>)

\* C13: on a whole section buffer the returned text is the non-empty trimmed
\* texts of its tag-67 records, in the order of the records, joined by
\* "\n\n": two tag-67 records with non-empty text give text1 "\n\n" text2, and
\* a tag-67 record whose text is empty after trimming (and a record of
\* another tag) adds neither a fragment nor a separator.
C13_SectionText ==
    (wpc = "done" /\ data = EncodeStream(recs)) =>
        /\ text = Join(BlankLine, TableFragments(recs, Len(recs)))
        /\ text_parts = TableFragments(recs, Len(recs))
        /\ (Len(recs) = 2 /\ Len(text_parts) = 2) =>
              text = text_parts[1] \o <<10, 10>> \o text_parts[2]
        /\ (Len(recs) = 2 /\ Len(text_parts) = 1) => text = text_parts[1]

\* the records "A" and "B", both of tag 67, give "A\n\nB"
C13_Witness ==
    /\ wpc = "done"
    /\ recs = <<Rec(67, 0, FALSE, CodeBytes(<<65, 0>>)),
                Rec(67, 0, TRUE, CodeBytes(<<66>>))>>
    /\ data = EncodeStream(recs)
    /\ text = <<65, 10, 10, 66>>

(***************************************************************************)
(* Further claims about the container reader (Spec)                        *)
(***************************************************************************)
\* the bytes of the stream called name in file c
RawBytes(c, name) ==
    IF name[1] = "BodyText" THEN c.sections[name[2] + 1].bytes
    ELSE c.bindata[name[2]].bytes

\* how many times name was passed to ole.openstream
ReadCount(name) == Cardinality({r \in 1..Len(reads) : reads[r] = name})

\* the FileHeader of the file has been read and was at least 37 bytes long
HeaderWasRead ==
    /\ has_olefile
    /\ container.is_ole
    /\ container.header.present
    /\ Len(container.header.bytes) >= 37
    /\ pc \notin {"start", "header"}

\* C14: once a FileHeader of at least 37 bytes has been read, is_compressed
\* is bit 0 of its byte 36 and stays so, the FileHeader stream was read
\* once, zlib.decompress was called on the bytes of a section stream or of a
\* BinData stream exactly when the flag is set, and with the flag clear the
\* walker and save_image get the bytes of the stream as they are.
C14_CompressionFlag ==
    HeaderWasRead =>
        /\ is_compressed = ((container.header.bytes[37] % 2) = 1)
        /\ ReadCount(HeaderName) = 1
        /\ \A e \in 1..Len(stream_log) :
              /\ stream_log[e].inflated = ((container.header.bytes[37] % 2) = 1)
              /\ (container.header.bytes[37] % 2) = 0 =>
                    /\ stream_log[e].to \in {"walker", "save_image"}
                    /\ stream_log[e].bytes = RawBytes(container, stream_log[e].name)
        /\ \A r \in 1..Len(reads) :
              (\/ reads[r][1] = "BodyText" /\ reads[r][2] < section_idx
               \/ reads[r][1] = "BinData" /\ container.bindata[reads[r][2]].readable)
              => \E e \in 1..Len(stream_log) : stream_log[e].name = reads[r]
        /\ (container.header.bytes[37] % 2) = 0 =>
              \A w \in 1..Len(written) :
                  \E b \in 1..Len(container.bindata) :
                      written[w].data = container.bindata[b].bytes

\* a file whose byte 36 is 2: two sections walked as they are and a BinData
\* stream written as it is
C14_Witness ==
    /\ pc = "done"
    /\ outcome.kind = "return"
    /\ container.header = FileHeader(40, 2)
    /\ ~is_compressed
    /\ Len(outcome.content) > 1
    /\ Len(written) = 1
    /\ written[1].data = Deflated(GifMagic \o <<57>>)
    /\ \A e \in 1..Len(stream_log) : ~stream_log[e].inflated
\* how many BinData streams were handed to save_image
SaveAttempts ==
    Cardinality({e \in 1..Len(stream_log) : stream_log[e].to = "save_image"})

\* C15: once the section loop has run to its end, the call returns or
\* raises as the sections alone decide: it returns the joined section texts
\* when there are any and raises the no-text error otherwise, whether or not
\* the metadata could be read and whether or not an asset could be read or
\* written; unreadable metadata gives the empty mapping, and an asset that
\* fails is left out of the images.
C15_BestEffort ==
    (pc = "done" /\ loop_done) =>
        /\ outcome.kind = "return" <=> RunTexts(container, RunLen(container)) # <<>>
        /\ outcome.kind # "return" => IsNoTextError(outcome)
        /\ outcome.kind = "return" =>
              /\ outcome.content = Join(BlankLine, RunTexts(container, RunLen(container)))
              /\ container.summary.raises => DOMAIN outcome.metadata = {}
              /\ ~container.summary.raises =>
                    DOMAIN outcome.metadata = {"title", "subject", "application"}
              /\ Len(outcome.images) = Len(written)
              /\ Len(outcome.images) <= SaveAttempts

\* metadata that cannot be read, one BinData stream that cannot be read and
\* one that cannot be written, and the text is returned all the same
C15_Witness ==
    /\ pc = "done"
    /\ outcome.kind = "return"
    /\ outcome.content = <<65, 10, 10, 66>>
    /\ container.summary.raises
    /\ DOMAIN outcome.metadata = {}
    /\ Len(container.bindata) = 2
    /\ ReadCount(BinName(1)) = 1
    /\ ReadCount(BinName(2)) = 1
    /\ SaveAttempts = 1
    /\ outcome.images = <<>>
\* BinData bytes that are no raw DEFLATE stream: a PNG file (its first byte
\* opens a stored block whose LEN and NLEN do not match) and two bytes that
\* open a block of the reserved type
NotDeflate == { PngMagic \o <<1>>, <<7, 7>> }

\* the asset loop is over
AssetLoopOver == loop_done /\ pc \in {"finally", "done"} /\ WantImages

\* C16: with the compression flag set, a BinData stream whose bytes do not
\* inflate is handed to save_image as it was read, and the loop goes on:
\* when the asset loop is over every BinData stream has been read and every
\* readable one has been handed to save_image, those after a stream that did
\* not inflate included.
C16_RawPassthrough ==
    /\ \A e \in 1..Len(stream_log) :
          (/\ is_compressed
           /\ stream_log[e].name[1] = "BinData"
           /\ RawBytes(container, stream_log[e].name) \in NotDeflate) =>
              /\ stream_log[e].to = "save_image"
              /\ stream_log[e].bytes = RawBytes(container, stream_log[e].name)
    /\ \A w \in 1..Len(written) :
          \E e \in 1..Len(stream_log) :
              /\ stream_log[e].to = "save_image"
              /\ stream_log[e].bytes = written[w].data
    /\ (AssetLoopOver /\ is_compressed) =>
          \A b \in 1..Len(container.bindata) :
              /\ ReadCount(BinName(b)) = 1
              /\ container.bindata[b].readable =>
                    \E e \in 1..Len(stream_log) :
                        /\ stream_log[e].name = BinName(b)
                        /\ stream_log[e].to = "save_image"

\* three assets of a compressed file: the first and the last do not
\* inflate and are written as read, the second is written inflated
C16_Witness ==
    /\ pc = "done"
    /\ outcome.kind = "return"
    /\ FileCompressed(container)
    /\ Len(written) = 3
    /\ written[1].data = PngMagic \o <<1>>
    /\ written[2].data = GifMagic \o <<57>>
    /\ written[3].data = <<7, 7>>
    /\ Len(outcome.images) = 3
\* n (below 1000) in three decimal digits
ThreeDigits(n) == <<48 + (n \div 100), 48 + ((n \div 10) % 10), 48 + (n % 10)>>

\* ".gif" for data that starts with "GIF8", ".png" for the other data of
\* the model
DotExt(bytes) ==
    IF Len(bytes) >= 4 /\ SubSeq(bytes, 1, 4) = <<71, 73, 70, 56>>
    THEN <<46, 103, 105, 102>> ELSE <<46, 112, 110, 103>>

\* {image_dir}/{base_name}_img_{k:03d}.{ext}
AssetPath(k, bytes) ==
    image_dir.path \o <<47>> \o file_path.stem \o <<95, 105, 109, 103, 95>>
    \o ThreeDigits(k) \o DotExt(bytes)

\* C17: img_index is at every moment the number of assets written so far
\* and the number of entries of images; entry k (from 0) of images is the
\* file {base_name}_img_{k in 3 digits}.{ext} that was written as asset k,
\* with page 0, so the indices run from 0 without gap or repeat, and an asset
\* that could not be read or written takes no index.
C17_AssetNumbering ==
    /\ img_index = Len(written)
    /\ img_index = Len(images)
    /\ \A k \in 1..Len(images) :
          /\ images[k].page = 0
          /\ images[k].path = AssetPath(k - 1, written[k].data)
          /\ written[k].path = images[k].path
    /\ (pc = "done" /\ outcome.kind = "return") => outcome.images = images

\* three assets, the second could not be written: the first and the third
\* are numbered 000 and 001
C17_Witness ==
    /\ pc = "done"
    /\ outcome.kind = "return"
    /\ SaveAttempts = 3
    /\ Len(outcome.images) = 2
    /\ written[1].data = PngMagic \o <<1>>
    /\ written[2].data = <<7, 7>>
    /\ outcome.images[2].path = AssetPath(1, <<7, 7>>)
    /\ outcome.images[2].page = 0
\* the metadata of the summary properties of the model's files
SummaryMetadata(m) ==
    IF m.raises THEN [k \in {} |-> ""]
    ELSE [k \in {"title", "subject", "application"} |->
            CASE k = "title" -> "Report"
              [] k = "subject" -> "S"
              [] k = "application" -> "Hwp"]

\* C18: when extract_images is false or no image directory is given, no
\* BinData stream is ever read, no file is written and the images stay
\* empty; a returned result has no images, and its content and metadata are
\* what the sections and the summary properties give, as they are when
\* extraction is enabled.
C18_OptIn ==
    /\ ~(extract_images /\ ~image_dir.none) =>
          /\ \A r \in 1..Len(reads) : reads[r][1] # "BinData"
          /\ written = <<>>
          /\ partial = {}
          /\ images = <<>>
          /\ (pc = "done" /\ outcome.kind = "return") => outcome.images = <<>>
    /\ (pc = "done" /\ outcome.kind = "return") =>
          /\ outcome.content = Join(BlankLine, RunTexts(container, RunLen(container)))
          /\ outcome.metadata = SummaryMetadata(container.summary)

\* extract_images is false for a file with a BinData stream: text and
\* metadata are returned, the stream is left alone
C18_Witness ==
    /\ pc = "done"
    /\ outcome.kind = "return"
    /\ ~extract_images
    /\ Len(container.bindata) = 1
    /\ ReadCount(BinName(1)) = 0
    /\ outcome.images = <<>>
    /\ outcome.content = <<65>>
    /\ outcome.metadata = SummaryMetadata(SummaryProps)
(***************************************************************************)
(* Claims about convert_file and _build_output (SpecConvert)               *)
(***************************************************************************)
\* C19: when the input file does not exist the call ends in
\* FileNotFoundError, and detect_file_type, get_parser and parse are never
\* called, no directory is made and no file is written.
C19_FileNotFound ==
    ~cenv.exists =>
        /\ cpc \in {"start", "done"}
        /\ calls = <<>>
        /\ fs_dirs = InitialDirs
        /\ fs_files = {}
        /\ cpc = "done" => conv_outcome.kind = "FileNotFoundError"

\* the input is missing and the output was to go to a directory that does
\* not exist
C19_Witness ==
    /\ cpc = "done"
    /\ ~cenv.exists
    /\ conv_outcome.kind = "FileNotFoundError"
    /\ ~output_path.none
    /\ Cwd \o output_path.dir \notin fs_dirs
    /\ calls = <<>>

\* the text of a metadata value of the model
ValueText(v) == IF v.kind = "int" /\ v.n = 12 THEN <<49, 50>> ELSE v.s

\* "key: value\n" for every entry from entry k on, in mapping order
RECURSIVE EntryLines(_, _)
EntryLines(md, k) ==
    IF k > Len(md) THEN <<>>
    ELSE md[k].key \o <<58, 32>> \o ValueText(md[k].value) \o <<10>>
         \o EntryLines(md, k + 1)

\* C20: the output of _build_output is "---\n", one "key: value\n" per
\* metadata entry in mapping order, "---\n", "\n" and then the content when
\* no_metadata is false and the mapping is not empty, and the content alone
\* in every other case.
C20_BuildOutput ==
    (cpc \in {"write", "done"} /\ result = cenv.parse.result /\ cenv.parse.ok
        /\ Len(calls) = 3) =>
        built = IF ~no_metadata /\ result.metadata # <<>>
                THEN <<45, 45, 45, 10>> \o EntryLines(result.metadata, 1)
                     \o <<45, 45, 45, 10>> \o <<10>> \o result.content
                ELSE result.content

\* "---\ntitle: Test\nauthor: Kim\n---\n\n# Hello"
C20_Witness ==
    /\ cpc = "done"
    /\ ~no_metadata
    /\ Len(result.metadata) = 2
    /\ built = <<45, 45, 45, 10, 116, 105, 116, 108, 101, 58, 32, 84, 101, 115,
                 116, 10, 97, 117, 116, 104, 111, 114, 58, 32, 75, 105, 109, 10,
                 45, 45, 45, 10, 10, 35, 32, 72, 101, 108, 108, 111>>

(***************************************************************************)
(* converter.py: convert_batch                                             *)
(*                                                                         *)
(* The entries below input_dir are paths relative to it: the names of the  *)
(* directories on the way and the file name, each a string of character    *)
(* codes.  An entry that is a file carries what convert_file meets on it:  *)
(* the MIME type detected, whether its parser returns, the text to write   *)
(* and the step of the writing the operating system refuses, if any.       *)
(***************************************************************************)
\* the codes of the suffixes of the model
SuffixCodes(suffix) ==
    CASE suffix = ".txt" -> <<46, 116, 120, 116>>
      [] suffix = ".png" -> <<46, 112, 110, 103>>
      [] suffix = ".xyz" -> <<46, 120, 121, 122>>
      [] suffix = ".md"  -> <<46, 109, 100>>
      [] OTHER -> <<>>

\* a file dir/stem+suffix whose parser returns the text "a" or raises
\* ParserError; nothing hinders the writing of its output
FileEntry(dir, stem, suffix, parse_ok) ==
    [dir |-> dir, stem |-> stem, suffix |-> suffix, is_file |-> TRUE,
     mime |-> None, parse_ok |-> parse_ok,
     parse_error |-> IF parse_ok THEN "" ELSE "ParserError",
     content |-> IF parse_ok THEN <<97>> ELSE <<>>, io |-> ""]

\* a file whose parser raises the exception error
FailingEntry(dir, stem, suffix, error) ==
    [dir |-> dir, stem |-> stem, suffix |-> suffix, is_file |-> TRUE,
     mime |-> None, parse_ok |-> FALSE, parse_error |-> error,
     content |-> <<>>, io |-> ""]

\* the steps of the writing of an output file that the operating system
\* can refuse: the making of its directory, the opening of the file, the
\* writing of the bytes
IoSteps == {"mkdir", "open", "write"}

\* a file whose parser returns, with the text convert_file has to write
\* for it and the step of the writing that raises OSError ("" for none)
TextEntry(dir, stem, suffix, body, io) ==
    [dir |-> dir, stem |-> stem, suffix |-> suffix, is_file |-> TRUE,
     mime |-> None, parse_ok |-> TRUE, parse_error |-> "",
     content |-> body, io |-> io]

\* a directory dir/stem
DirEntry(dir, stem) ==
    [dir |-> dir, stem |-> stem, suffix |-> "", is_file |-> FALSE,
     mime |-> None, parse_ok |-> FALSE, parse_error |-> "",
     content |-> <<>>, io |-> ""]

\* file_path.relative_to(input_dir), as its parts
RelativeTo(e) == e.dir \o <<e.stem \o SuffixCodes(e.suffix)>>

\* str < str: the order of the code points, a prefix before its extensions
RECURSIVE StrLess(_, _)
StrLess(a, b) ==
    IF b = <<>> THEN FALSE
    ELSE IF a = <<>> THEN TRUE
    ELSE IF a[1] # b[1] THEN a[1] < b[1]
    ELSE StrLess(Tail(a), Tail(b))

\* Path < Path: the order of the parts, each compared as a string
RECURSIVE PathLess(_, _)
PathLess(p, q) ==
    IF q = <<>> THEN FALSE
    ELSE IF p = <<>> THEN TRUE
    ELSE IF p[1] # q[1] THEN StrLess(p[1], q[1])
    ELSE PathLess(Tail(p), Tail(q))

\* sorted(input_dir.glob(pattern))
RECURSIVE SortedPaths(_)
SortedPaths(es) ==
    IF es = {} THEN <<>>
    ELSE LET first == CHOOSE e \in es :
                         \A o \in es \ {e} : PathLess(RelativeTo(e), RelativeTo(o))
         IN  <<first>> \o SortedPaths(es \ {first})

\* input_dir.glob("**/*" if recursive else "*")
Glob(es, rec) == { e \in es : rec \/ e.dir = <<>> }

\* Undetected that lets every file through
MutUndetected(e) == FALSE

\* try: detect_file_type(file_path) except ValueError: continue
Undetected(e) == ~DetectFileType(e, e.mime).ok

\* convert_file ends at `phase`, returning or raising `kind`
Outcome(kind, phase) == [kind |-> kind, phase |-> phase]

\* what convert_file(file_path, out_path, encoding=encoding) does on the
\* entry: it returns, or the exception it raises and the statement that
\* raises it.  The directory of an output file directly below the output
\* directory exists, so that mkdir is refused for no such file
ConvertFileOutcome(e, encoding) ==
    LET det == DetectFileType(e, e.mime)
    IN  IF ~det.ok THEN Outcome("ValueError", "detect")
        ELSE IF det.type \notin EnsureParsersLoaded(registry)
             THEN Outcome("UnsupportedFormatError", "parser")
        ELSE IF ~e.parse_ok THEN Outcome(e.parse_error, "parse")
        ELSE IF e.io = "mkdir" /\ e.dir # <<>> THEN Outcome("OSError", "mkdir")
        ELSE IF e.io = "open" THEN Outcome("OSError", "open")
        ELSE IF ~Encode(e.content, encoding).ok
             THEN Outcome(Encode(e.content, encoding).error, "encode")
        ELSE IF e.io = "write" THEN Outcome("OSError", "write")
        ELSE Outcome("returned", "return")

\* output_dir / relative.with_suffix(".md")
OutPath(e) == e.dir \o <<e.stem \o SuffixCodes(".md")>>

\* the output directory with the file at path holding data
WithFile(o, e, bytes) ==
    [o EXCEPT !.dirs = @ \cup DirAndParents(e.dir),
              !.files = Replaced(@, OutPath(e))
                        \cup {[path |-> OutPath(e), data |-> bytes]}]

\* the states convert_file can leave the output directory o in: untouched
\* when it raises before it writes, with some of the parents when mkdir
\* raises, without the file when open raises, with the emptied file when
\* the text cannot be encoded, with a part of the bytes when the writing
\* raises, with the bytes when it returns
ConvertFileLeaves(o, e, encoding) ==
    LET phase == ConvertFileOutcome(e, encoding).phase
    IN  CASE phase \in {"detect", "parser", "parse"} -> {o}
          [] phase = "mkdir" ->
                 { [o EXCEPT !.dirs = @ \cup made] :
                       made \in DirsBeforeFailure(e.dir) }
          [] phase = "open" ->
                 { [o EXCEPT !.dirs = @ \cup DirAndParents(e.dir)] }
          [] phase = "encode" -> { WithFile(o, e, <<>>) }
          [] phase = "write" ->
                 { WithFile(o, e, left) :
                       left \in WrittenBefore(Encode(e.content, encoding).bytes) }
          [] phase = "return" ->
                 { WithFile(o, e, Encode(e.content, encoding).bytes) }

\* the report entry of a file
Report(e, status, error) ==
    [file   |-> RelativeTo(e),
     output |-> IF status = "success" THEN OutPath(e) ELSE <<>>,
     status |-> status,
     error  |-> error]

\* the number of entries below input_dir
MaxFiles == 3

\* B.txt, a.txt, c.xyz, p.png, the directory d, d/a.txt, d.txt; the parser
\* of a.txt and of d/a.txt returns or raises ParserError, that of a.txt
\* also ValueError; B.txt holds "a" or "a" with U+AC00, a.txt also "a"
\* with a lone surrogate; the opening of a.md, the making of d for d/a.md
\* and the writing of "ab" to d.md can be refused
BatchEntries ==
    { FileEntry(<<>>, <<66>>, ".txt", TRUE),
      TextEntry(<<>>, <<66>>, ".txt", <<97, 44032>>, ""),
      FileEntry(<<>>, <<97>>, ".txt", TRUE),
      FileEntry(<<>>, <<97>>, ".txt", FALSE),
      FailingEntry(<<>>, <<97>>, ".txt", "ValueError"),
      TextEntry(<<>>, <<97>>, ".txt", <<97, 55296>>, ""),
      TextEntry(<<>>, <<97>>, ".txt", <<97>>, "open"),
      FileEntry(<<>>, <<99>>, ".xyz", TRUE),
      FileEntry(<<>>, <<112>>, ".png", TRUE),
      DirEntry(<<>>, <<100>>),
      FileEntry(<<<<100>>>>, <<97>>, ".txt", TRUE),
      FileEntry(<<<<100>>>>, <<97>>, ".txt", FALSE),
      TextEntry(<<<<100>>>>, <<97>>, ".txt", <<97>>, "mkdir"),
      FileEntry(<<>>, <<100>>, ".txt", TRUE),
      TextEntry(<<>>, <<100>>, ".txt", <<97, 98>>, "write") }

\* a directory content: no path twice, and every file in d with d
Listings ==
    { es \in SUBSET BatchEntries :
        /\ Cardinality(es) <= MaxFiles
        /\ \A e \in es : \A o \in es \ {e} : RelativeTo(e) # RelativeTo(o)
        /\ \A e \in es : e.dir # <<>> => DirEntry(<<>>, e.dir[1]) \in es }

\* the keyword arguments convert_batch hands on to convert_file: the
\* encoding of the output, the default one, one that cannot encode every
\* text, and a name Python does not know
BatchKwargs == { [encoding |-> c] : c \in {"utf-8", "ascii", "foo"} }

InitBatch ==
    /\ listing \in Listings
    /\ recursive \in BOOLEAN
    /\ kwargs \in BatchKwargs
    /\ bpc = "start"
    /\ queue = <<>>
    /\ results = <<>>
    /\ batch_out = [made |-> FALSE, dirs |-> {}, files |-> {}]
    /\ WalkIdle
    /\ ParseIdle
    /\ DecodeIdle
    /\ ConvIdle
    /\ HwpxIdle
    /\ WebIdle

\* the variables convert_batch leaves alone
not_batch == <<walk_vars, parse_vars, dec_vars, conv_vars, hwpx_vars,
               web_vars>>

\* output_dir.mkdir(parents=True, exist_ok=True) raises OSError, outside
\* every try: convert_batch raises before it has looked at a file
BatchMkdirFails ==
    /\ bpc = "start"
    /\ bpc' = "raised"
    /\ UNCHANGED <<listing, recursive, kwargs, queue, results, batch_out,
                   not_batch>>

\* output_dir.mkdir(parents=True, exist_ok=True); results = [];
\* the for loop starts on sorted(input_dir.glob(pattern))
BatchStart ==
    /\ bpc = "start"
    /\ batch_out' = [batch_out EXCEPT !.made = TRUE]
    /\ queue' = SortedPaths(Glob(listing, recursive))
    /\ results' = <<>>
    /\ bpc' = "loop"
    /\ UNCHANGED <<listing, recursive, kwargs, not_batch>>

\* if not file_path.is_file(): continue
BatchSkipDir ==
    /\ bpc = "loop"
    /\ queue # <<>>
    /\ ~Head(queue).is_file
    /\ queue' = Tail(queue)
    /\ UNCHANGED <<listing, recursive, kwargs, bpc, results, batch_out,
                   not_batch>>

\* detect_file_type raises ValueError: continue
BatchSkipUndetected ==
    /\ bpc = "loop"
    /\ queue # <<>>
    /\ Head(queue).is_file
    /\ Undetected(Head(queue))
    /\ queue' = Tail(queue)
    /\ UNCHANGED <<listing, recursive, kwargs, bpc, results, batch_out,
                   not_batch>>

\* convert_file(file_path, out_path, **kwargs) returns: the file is
\* written and a "success" entry appended
BatchSuccess ==
    /\ bpc = "loop"
    /\ queue # <<>>
    /\ Head(queue).is_file
    /\ ~Undetected(Head(queue))
    /\ ConvertFileOutcome(Head(queue), kwargs.encoding).kind = "returned"
    /\ batch_out' \in ConvertFileLeaves(batch_out, Head(queue), kwargs.encoding)
    /\ results' = Append(results, Report(Head(queue), "success", None))
    /\ queue' = Tail(queue)
    /\ UNCHANGED <<listing, recursive, kwargs, bpc, not_batch>>

\* convert_file(file_path, out_path, **kwargs) raises, in the parser or
\* while it writes the output: except Exception appends a "failed" entry,
\* and what convert_file has made of the output stays
BatchFailed ==
    /\ bpc = "loop"
    /\ queue # <<>>
    /\ Head(queue).is_file
    /\ ~Undetected(Head(queue))
    /\ ConvertFileOutcome(Head(queue), kwargs.encoding).kind # "returned"
    /\ batch_out' \in ConvertFileLeaves(batch_out, Head(queue), kwargs.encoding)
    /\ results' = Append(results,
                         Report(Head(queue), "failed",
                                ConvertFileOutcome(Head(queue),
                                                   kwargs.encoding).kind))
    /\ queue' = Tail(queue)
    /\ UNCHANGED <<listing, recursive, kwargs, bpc, not_batch>>

\* the loop is over: return results
BatchReturn ==
    /\ bpc = "loop"
    /\ queue = <<>>
    /\ bpc' = "done"
    /\ UNCHANGED <<listing, recursive, kwargs, queue, results, batch_out,
                   not_batch>>

NextBatch ==
    \/ BatchMkdirFails
    \/ BatchStart
    \/ BatchSkipDir
    \/ BatchSkipUndetected
    \/ BatchSuccess
    \/ BatchFailed
    \/ BatchReturn

SpecBatch == InitBatch /\ [][NextBatch]_vars

(***************************************************************************)
(* hwp_parser.py: _parse_hwpx                                              *)
(*                                                                         *)
(* A member of the archive is its name (a string of character codes),      *)
(* the exception zf.read raises on it ("" when it is read), the exception  *)
(* its XML raises ("" when it parses and is walked: ParseError from        *)
(* ET.fromstring, ValueError from ET.fromstring on a declared encoding     *)
(* expat does not support, RecursionError from _extract_text_recursive on  *)
(* deep nesting), the text and tail strings in the order                   *)
(* _extract_text_recursive meets them, and the (tag, text) pairs of its    *)
(* elements in document order.  A name may occur more than once: zf.read   *)
(* of the name reads the last member of that name.                         *)
(***************************************************************************)
\* s.endswith(suffix)
EndsWith(s, suffix) ==
    /\ Len(s) >= Len(suffix)
    /\ SubSeq(s, Len(s) - Len(suffix) + 1, Len(s)) = suffix

\* sub in s
Contains(s, sub) ==
    \E k \in 0..(Len(s) - Len(sub)) : SubSeq(s, k + 1, k + Len(sub)) = sub

\* s.lower() on ASCII
Lower(s) == [k \in 1..Len(s) |-> IF s[k] \in 65..90 THEN s[k] + 32 ELSE s[k]]

\* s.rfind(c) + 1
LastIndex(s, c) ==
    IF \E k \in 1..Len(s) : s[k] = c
    THEN CHOOSE k \in 1..Len(s) : s[k] = c /\ \A j \in (k + 1)..Len(s) : s[j] # c
    ELSE 0

\* Path(name).name: the last component of the path; pathlib passes over
\* the separators at the end and the components ".", so that the name of
\* "." is empty
RECURSIVE PathName(_)
PathName(name) ==
    IF name = <<>> THEN <<>>
    ELSE IF name[Len(name)] = 47 THEN PathName(SubSeq(name, 1, Len(name) - 1))
    ELSE LET base == SubSeq(name, LastIndex(name, 47) + 1, Len(name))
         IN  IF base = <<46>>
             THEN PathName(SubSeq(name, 1, Len(name) - 1))
             ELSE base

\* Path(name).suffix: from the last dot of the last component, when the dot
\* is neither its first nor its last character
PathSuffix(name) ==
    LET base == PathName(name)
        dot  == LastIndex(base, 46)
    IN  IF 1 < dot /\ dot < Len(base) THEN SubSeq(base, dot, Len(base)) ELSE <<>>

\* name.startswith("Contents/section") and name.endswith(".xml")
IsSectionName(name) ==
    /\ StartsWith(name, <<67, 111, 110, 116, 101, 110, 116, 115, 47, 115, 101, 99, 116, 105, 111, 110>>)
    /\ EndsWith(name, <<46, 120, 109, 108>>)

\* "section" in name.lower() and name.endswith(".xml")
IsAltSectionName(name) ==
    /\ Contains(Lower(name), <<115, 101, 99, 116, 105, 111, 110>>)
    /\ EndsWith(name, <<46, 120, 109, 108>>)

\* name.lower().endswith(".hpf") or "meta" in name.lower()
IsMetaName(name) ==
    \/ EndsWith(Lower(name), <<46, 104, 112, 102>>)
    \/ Contains(Lower(name), <<109, 101, 116, 97>>)

\* _is_image_file(name): .png .jpg .jpeg .gif .bmp .tiff .tif .wmf .emf
IsImageFile(name) ==
    Lower(PathSuffix(name)) \in
        { <<46, 112, 110, 103>>, <<46, 106, 112, 103>>, <<46, 106, 112, 101, 103>>,
          <<46, 103, 105, 102>>, <<46, 98, 109, 112>>, <<46, 116, 105, 102, 102>>,
          <<46, 116, 105, 102>>, <<46, 119, 109, 102>>, <<46, 101, 109, 102>> }

\* the names of a sequence of members
Names(members) == [k \in 1..Len(members) |-> members[k].name]

\* sorted(names): the list in the order of the code points, a name as
\* often as it is in the list
RECURSIVE SortedNames(_)
SortedNames(names) ==
    IF names = <<>> THEN <<>>
    ELSE LET k == CHOOSE j \in 1..Len(names) :
                      \A o \in 1..Len(names) : ~StrLess(names[o], names[j])
         IN  <<names[k]>> \o SortedNames(SubSeq(names, 1, k - 1)
                                         \o SubSeq(names, k + 1, Len(names)))

\* section_files: the sorted names under Contents/section*.xml or, when
\* there is none, the sorted names that hold "section"
SectionFiles(members) ==
    LET named == SelectSeq(members, LAMBDA m : IsSectionName(m.name))
        other == SelectSeq(members, LAMBDA m : IsAltSectionName(m.name))
    IN  IF named # <<>> THEN SortedNames(Names(named))
        ELSE SortedNames(Names(other))

\* zf.getinfo(name): the last member of that name
Member(members, name) ==
    members[CHOOSE k \in 1..Len(members) :
                /\ members[k].name = name
                /\ \A j \in (k + 1)..Len(members) : members[j].name # name]

\* the exceptions of zf.read and of _parse_hwpx_section that _parse_hwpx
\* turns into ParserError or passes over, the others leave it
ReadCaught == {"", "BadZipFile"}

XmlCaught == {"", "ParseError"}

\* the strings _extract_text_recursive appends: the text and tail strings
\* that are not blank, stripped
RECURSIVE StrippedTexts(_)
StrippedTexts(texts) ==
    IF texts = <<>> THEN <<>>
    ELSE (IF Strip(Head(texts)) # <<>> THEN <<Strip(Head(texts))>> ELSE <<>>)
         \o StrippedTexts(Tail(texts))

\* _parse_hwpx_section(xml_data): "" on ET.ParseError
ParseHwpxSection(m) ==
    IF m.xml_raises = "ParseError" THEN <<>>
    ELSE Join(BlankLine, StrippedTexts(m.texts))

\* the tags _read_hwpx_metadata keeps
MetaTags == {"title", "creator", "subject", "description"}

\* metadata[tag] = child.text for the elements of one file, in order
RECURSIVE MetaFrom(_, _)
MetaFrom(fields, md) ==
    IF fields = <<>> THEN md
    ELSE MetaFrom(Tail(fields),
                  IF Head(fields).tag \in MetaTags /\ Head(fields).text # <<>>
                  THEN [md EXCEPT ![Head(fields).tag] = Head(fields).text]
                  ELSE md)

\* the names _read_hwpx_metadata hands to zf.read
MetaNames(members) == SelectSeq(Names(members), IsMetaName)

\* _read_hwpx_metadata(zf): the names *.hpf or *meta* in archive order; a
\* member zf.read or ET.fromstring raises on is passed over (root.iter()
\* does not recurse)
RECURSIVE MetadataOf(_, _, _)
MetadataOf(members, names, md) ==
    IF names = <<>> THEN md
    ELSE LET m == Member(members, Head(names))
         IN  MetadataOf(members, Tail(names),
                 IF m.read_raises = "" /\ m.xml_raises \in {"", "RecursionError"}
                 THEN MetaFrom(m.fields, md) ELSE md)

ReadHwpxMetadata(members, md) == MetadataOf(members, MetaNames(members), md)

\* no metadata: no tag is set
NoMeta == [t \in MetaTags |-> <<>>]

\* ---- the archives of the model ----
ZipMember(name, read_raises, xml_raises, texts, fields) ==
    [name |-> name, read_raises |-> read_raises, xml_raises |-> xml_raises,
     texts |-> texts, fields |-> fields]

\* "Contents/section<k>.xml"
HwpxSectionName(k) == <<67, 111, 110, 116, 101, 110, 116, 115, 47, 115, 101, 99, 116, 105, 111, 110>> \o Decimal(k) \o <<46, 120, 109, 108>>

\* the text of section k: "S<k>"
SectionMark(k) == <<83>> \o Decimal(k)

\* section k: its text between blanks and a blank tail; or no text; or XML
\* that does not parse; or a member zf.read raises BadZipFile on (bad
\* CRC-32) or zlib.error (damaged deflate stream); or XML in an encoding
\* expat does not support; or XML nested deeper than the recursion limit
GoodSection(k) ==
    ZipMember(HwpxSectionName(k), "", "",
              <<<<32>> \o SectionMark(k) \o <<10>>, <<32, 10>>>>, <<>>)

EmptySection(k) == ZipMember(HwpxSectionName(k), "", "", <<<<32>>>>, <<>>)

BrokenSection(k) == ZipMember(HwpxSectionName(k), "", "ParseError", <<>>, <<>>)

CorruptSection(k) ==
    ZipMember(HwpxSectionName(k), "BadZipFile", "ParseError", <<>>, <<>>)

DamagedSection(k) ==
    ZipMember(HwpxSectionName(k), "zlib.error", "ParseError", <<>>, <<>>)

EncodedSection(k) ==
    ZipMember(HwpxSectionName(k), "", "ValueError", <<SectionMark(k)>>, <<>>)

DeepSection(k) ==
    ZipMember(HwpxSectionName(k), "", "RecursionError", <<SectionMark(k)>>, <<>>)

\* "Contents/content.hpf" with a title, a creator and an element "meta"
HpfName == <<67, 111, 110, 116, 101, 110, 116, 115, 47, 99, 111, 110, 116, 101, 110, 116, 46, 104, 112, 102>>

ContentHpf ==
    ZipMember(HpfName, "", "", <<>>,
              <<[tag |-> "title", text |-> <<84>>],
                [tag |-> "meta", text |-> <<77>>],
                [tag |-> "creator", text |-> <<75>>],
                [tag |-> "subject", text |-> <<>>]>>)

\* a member of the same name with another title
OldHpf == ZipMember(HpfName, "", "", <<>>, <<[tag |-> "title", text |-> <<79>>]>>)

\* "BinData/image1.PNG", "BinData/image2.jpg" that cannot be read,
\* "mimetype", and the directory entry "BinData/pic.png/" (read as b"")
ImagePng == ZipMember(<<66, 105, 110, 68, 97, 116, 97, 47, 105, 109, 97, 103, 101, 49, 46, 80, 78, 71>>, "", "ParseError", <<>>, <<>>)

ImageJpg == ZipMember(<<66, 105, 110, 68, 97, 116, 97, 47, 105, 109, 97, 103, 101, 50, 46, 106, 112, 103>>, "BadZipFile", "ParseError", <<>>, <<>>)

Mimetype == ZipMember(<<109, 105, 109, 101, 116, 121, 112, 101>>, "", "ParseError", <<>>, <<>>)

DirPng == ZipMember(<<66, 105, 110, 68, 97, 116, 97, 47, 112, 105, 99, 46, 112, 110, 103, 47>>, "", "ParseError", <<>>, <<>>)

\* the number of section files of an archive
MaxHwpxSections == 11

\* the ways a section is not a section with text
Oddities == {"empty", "broken", "corrupt", "damaged", "encoded", "deep"}

OddSection(k, how) ==
    CASE how = "empty"   -> EmptySection(k)
      [] how = "broken"  -> BrokenSection(k)
      [] how = "corrupt" -> CorruptSection(k)
      [] how = "damaged" -> DamagedSection(k)
      [] how = "encoded" -> EncodedSection(k)
      [] OTHER           -> DeepSection(k)

\* the section members 0..n-1 in ascending order, the one at `odd` (if
\* any) not a section with text
SectionMembers(n, odd, how) ==
    [k \in 1..n |-> IF k - 1 = odd THEN OddSection(k - 1, how)
                                   ELSE GoodSection(k - 1)]

\* "Section1.xml" and "section0.xml" outside Contents
AltMembers ==
    << ZipMember(<<83, 101, 99, 116, 105, 111, 110, 49, 46, 120, 109, 108>>, "", "", <<<<66>>>>, <<>>),
       ZipMember(<<115, 101, 99, 116, 105, 111, 110, 48, 46, 120, 109, 108>>, "", "", <<<<65>>>>, <<>>) >>

\* section 0 twice with different texts, section 1 before the second one,
\* the package file twice, a directory entry named like an image
TwiceMembers ==
    << ZipMember(HwpxSectionName(0), "", "", <<<<70>>>>, <<>>), GoodSection(1),
       GoodSection(0), DirPng, ImagePng, OldHpf, ContentHpf >>

\* the archives: n sections in ascending order, all with text or one of
\* them odd, followed by the package file, two images and mimetype; the
\* sections in descending order; an archive with sections outside Contents
\* only; an archive with names that occur twice; a file that is no ZIP file
Archives ==
    { [bad |-> FALSE,
       members |-> SectionMembers(n, odd, how)
                   \o <<ContentHpf, ImagePng, ImageJpg, Mimetype>>] :
          n \in 0..MaxHwpxSections, odd \in {-1, 0, 1}, how \in Oddities }
    \cup { [bad |-> FALSE,
            members |-> <<GoodSection(2), GoodSection(0), GoodSection(1)>>],
           [bad |-> FALSE, members |-> AltMembers \o <<ImagePng>>],
           [bad |-> FALSE, members |-> TwiceMembers],
           [bad |-> TRUE, members |-> <<>>] }

InitHwpx ==
    /\ zf \in Archives
    /\ hx_stem = <<97>>
    /\ hx_extract \in BOOLEAN
    /\ hpc = "start"
    /\ section_files = <<>>
    /\ hx_parts = <<>>
    /\ hx_metadata = NoMeta
    /\ hx_images = <<>>
    /\ hx_names = <<>>
    /\ hx_reads = <<>>
    /\ hx_written = <<>>
    /\ hx_outcome = Raised("none", "", <<>>)
    /\ WalkIdle
    /\ ParseIdle
    /\ DecodeIdle
    /\ ConvIdle
    /\ BatchIdle
    /\ WebIdle

\* the variables _parse_hwpx leaves alone
not_hwpx == <<walk_vars, parse_vars, dec_vars, conv_vars, batch_vars,
              web_vars>>

\* zipfile.ZipFile raises BadZipFile: ParserError, whose message names no
\* file
HwpxBadZip ==
    /\ hpc = "start"
    /\ zf.bad
    /\ hpc' = "done"
    /\ hx_outcome' = Raised("ParserError", "not a valid HWPX file", <<>>)
    /\ UNCHANGED <<zf, hx_stem, hx_extract, section_files, hx_parts, hx_metadata,
                   hx_images, hx_names, hx_reads, hx_written, not_hwpx>>

\* the archive opens: metadata = self._read_hwpx_metadata(zf), which hands
\* every name *.hpf or *meta* to zf.read; section_files = sorted([...]),
\* with the other names when it is empty
HwpxOpen ==
    /\ hpc = "start"
    /\ ~zf.bad
    /\ hx_metadata' = ReadHwpxMetadata(zf.members, NoMeta)
    /\ section_files' = SectionFiles(zf.members)
    /\ hx_names' = Names(zf.members)
    /\ hx_reads' = MetaNames(zf.members)
    /\ hpc' = "sections"
    /\ UNCHANGED <<zf, hx_stem, hx_extract, hx_parts, hx_images, hx_written,
                   hx_outcome, not_hwpx>>

\* zf.read(section_file) raises BadZipFile: ParserError, whose message
\* names no file
HwpxSectionUnreadable ==
    /\ hpc = "sections"
    /\ section_files # <<>>
    /\ Member(zf.members, Head(section_files)).read_raises = "BadZipFile"
    /\ hx_reads' = Append(hx_reads, Head(section_files))
    /\ hpc' = "done"
    /\ hx_outcome' = Raised("ParserError", "not a valid HWPX file", <<>>)
    /\ UNCHANGED <<zf, hx_stem, hx_extract, section_files, hx_parts, hx_metadata,
                   hx_images, hx_names, hx_written, not_hwpx>>

\* zf.read(section_file) raises another exception than BadZipFile, or
\* _parse_hwpx_section another one than ET.ParseError: it leaves
\* _parse_hwpx as it is
HwpxSectionRaises ==
    /\ hpc = "sections"
    /\ section_files # <<>>
    /\ LET m == Member(zf.members, Head(section_files))
       IN  /\ m.read_raises \notin ReadCaught
              \/ (m.read_raises = "" /\ m.xml_raises \notin XmlCaught)
           /\ hx_outcome' = Raised(IF m.read_raises # "" THEN m.read_raises
                                   ELSE m.xml_raises, "", <<>>)
    /\ hx_reads' = Append(hx_reads, Head(section_files))
    /\ hpc' = "done"
    /\ UNCHANGED <<zf, hx_stem, hx_extract, section_files, hx_parts, hx_metadata,
                   hx_images, hx_names, hx_written, not_hwpx>>

\* xml_data = zf.read(section_file); section_text, section_tables =
\* self._parse_hwpx_section(xml_data); if section_text: parts.append(...)
HwpxSection ==
    /\ hpc = "sections"
    /\ section_files # <<>>
    /\ Member(zf.members, Head(section_files)).read_raises = ""
    /\ Member(zf.members, Head(section_files)).xml_raises \in XmlCaught
    /\ hx_reads' = Append(hx_reads, Head(section_files))
    /\ LET section_text == ParseHwpxSection(Member(zf.members, Head(section_files)))
       IN  hx_parts' = IF section_text # <<>> THEN Append(hx_parts, section_text)
                       ELSE hx_parts
    /\ section_files' = Tail(section_files)
    /\ UNCHANGED <<zf, hx_stem, hx_extract, hpc, hx_metadata, hx_images, hx_names,
                   hx_written, hx_outcome, not_hwpx>>

\* the sections are read and no image is asked for
HwpxSkipImages ==
    /\ hpc = "sections"
    /\ section_files = <<>>
    /\ ~hx_extract
    /\ hpc' = "check"
    /\ UNCHANGED <<zf, hx_stem, hx_extract, section_files, hx_parts, hx_metadata,
                   hx_images, hx_names, hx_reads, hx_written, hx_outcome,
                   not_hwpx>>

\* the image loop on a name that is no image
HwpxImageSkip ==
    /\ hpc = "sections"
    /\ section_files = <<>>
    /\ hx_extract
    /\ hx_names # <<>>
    /\ ~IsImageFile(Head(hx_names))
    /\ hx_names' = Tail(hx_names)
    /\ UNCHANGED <<zf, hx_stem, hx_extract, hpc, section_files, hx_parts,
                   hx_metadata, hx_images, hx_reads, hx_written, hx_outcome,
                   not_hwpx>>

\* the image loop on an image that cannot be read: the exception is logged
HwpxImageFails ==
    /\ hpc = "sections"
    /\ section_files = <<>>
    /\ hx_extract
    /\ hx_names # <<>>
    /\ IsImageFile(Head(hx_names))
    /\ Member(zf.members, Head(hx_names)).read_raises # ""
    /\ hx_reads' = Append(hx_reads, Head(hx_names))
    /\ hx_names' = Tail(hx_names)
    /\ UNCHANGED <<zf, hx_stem, hx_extract, hpc, section_files, hx_parts,
                   hx_metadata, hx_images, hx_written, hx_outcome, not_hwpx>>

\* the image loop on an image that is read and that save_image cannot
\* write: the exception is logged, img_index stays, and the file is left
\* when the write failed part-way
HwpxImageWriteFails ==
    /\ hpc = "sections"
    /\ section_files = <<>>
    /\ hx_extract
    /\ hx_names # <<>>
    /\ IsImageFile(Head(hx_names))
    /\ Member(zf.members, Head(hx_names)).read_raises = ""
    /\ hx_reads' = Append(hx_reads, Head(hx_names))
    /\ LET filename == GenerateImageFilename(hx_stem, Len(hx_images),
                                             PathSuffix(Head(hx_names)))
       IN  \/ hx_written' = hx_written
           \/ hx_written' = Append(hx_written, filename)
    /\ hx_names' = Tail(hx_names)
    /\ UNCHANGED <<zf, hx_stem, hx_extract, hpc, section_files, hx_parts,
                   hx_metadata, hx_images, hx_outcome, not_hwpx>>

\* the image loop on an image: it is saved under
\* generate_image_filename(file_path.stem, img_index, ext) and img_index
\* (the number of images saved) goes up
HwpxImageSaved ==
    /\ hpc = "sections"
    /\ section_files = <<>>
    /\ hx_extract
    /\ hx_names # <<>>
    /\ IsImageFile(Head(hx_names))
    /\ Member(zf.members, Head(hx_names)).read_raises = ""
    /\ hx_reads' = Append(hx_reads, Head(hx_names))
    /\ LET filename == GenerateImageFilename(hx_stem, Len(hx_images),
                                             PathSuffix(Head(hx_names)))
       IN  /\ hx_written' = Append(hx_written, filename)
           /\ hx_images' = Append(hx_images,
                                  [path |-> filename,
                                   alt  |-> AltText(Len(hx_images)),
                                   page |-> 0])
    /\ hx_names' = Tail(hx_names)
    /\ UNCHANGED <<zf, hx_stem, hx_extract, hpc, section_files, hx_parts,
                   hx_metadata, hx_outcome, not_hwpx>>

\* the image loop is over
HwpxImagesDone ==
    /\ hpc = "sections"
    /\ section_files = <<>>
    /\ hx_extract
    /\ hx_names = <<>>
    /\ hpc' = "check"
    /\ UNCHANGED <<zf, hx_stem, hx_extract, section_files, hx_parts, hx_metadata,
                   hx_images, hx_names, hx_reads, hx_written, hx_outcome,
                   not_hwpx>>

\* if not parts: raise ParserError
HwpxRaiseNoText ==
    /\ hpc = "check"
    /\ hx_parts = <<>>
    /\ hpc' = "done"
    /\ hx_outcome' = Raised("ParserError", "no text could be extracted", hx_stem)
    /\ UNCHANGED <<zf, hx_stem, hx_extract, section_files, hx_parts, hx_metadata,
                   hx_images, hx_names, hx_reads, hx_written, not_hwpx>>

\* return ParseResult(content="\n\n".join(parts), ...)
HwpxReturn ==
    /\ hpc = "check"
    /\ hx_parts # <<>>
    /\ hpc' = "done"
    /\ hx_outcome' = Returned(hx_parts, hx_metadata, hx_images)
    /\ UNCHANGED <<zf, hx_stem, hx_extract, section_files, hx_parts, hx_metadata,
                   hx_images, hx_names, hx_reads, hx_written, not_hwpx>>

NextHwpx ==
    \/ HwpxBadZip
    \/ HwpxOpen
    \/ HwpxSectionUnreadable
    \/ HwpxSectionRaises
    \/ HwpxSection
    \/ HwpxSkipImages
    \/ HwpxImageSkip
    \/ HwpxImageFails
    \/ HwpxImageWriteFails
    \/ HwpxImageSaved
    \/ HwpxImagesDone
    \/ HwpxRaiseNoText
    \/ HwpxReturn

SpecHwpx == InitHwpx /\ [][NextHwpx]_vars

(***************************************************************************)
(* web/app.py: the handlers of POST /convert and POST /convert/preview.    *)
(* A request is the route and the uploaded file.  The environment may      *)
(* refuse mkdtemp, the write of the upload into the temporary directory    *)
(* and the read of the output file; shutil.rmtree(..., ignore_errors=True) *)
(* may fail without a word and leave the directory; and the sending of a   *)
(* response may fail (the client is gone, the file cannot be read), in     *)
(* which case the server does not run the background task of the response. *)
(* The server may run several workers, and the background task runs in a   *)
(* worker thread: the steps of different requests interleave freely.       *)
(* A temporary directory is the number of the mkdtemp call that made it.   *)
(***************************************************************************)
\* the number of requests
MaxRequests == 2

Routes == {"/convert", "/convert/preview"}

\* a.txt whose parser returns, a.txt whose parser raises ParserError, a.txt
\* whose parser lets zlib.error out, a.txt whose output cannot be opened,
\* c.xyz with no detectable type, p.png with a type that has no parser
Uploads ==
    { FileEntry(<<>>, <<97>>, ".txt", TRUE),
      FileEntry(<<>>, <<97>>, ".txt", FALSE),
      FailingEntry(<<>>, <<97>>, ".txt", "zlib.error"),
      TextEntry(<<>>, <<97>>, ".txt", <<97>>, "open"),
      FileEntry(<<>>, <<99>>, ".xyz", TRUE),
      FileEntry(<<>>, <<112>>, ".png", TRUE) }

\* rmtree that leaves the directory in every case
MutRmtree(dirs, tmp_dir, fails) == dirs

\* shutil.rmtree(tmp_dir, ignore_errors=True): the directory is removed, or
\* left when the removal fails, and nothing is raised
Rmtree(dirs, tmp_dir, fails) == IF fails THEN dirs ELSE dirs \ {tmp_dir}

\* the request as the handler is entered
NewRequest(route, upload) ==
    [route |-> route, upload |-> upload, pc |-> "entered",
     tmp_dir |-> 0, status |-> 0, removals |-> 0, left |-> FALSE,
     dir_at_return |-> FALSE, background |-> FALSE, sent |-> FALSE]

InitWeb ==
    /\ web_reqs = <<>>
    /\ tmp_dirs = {}
    /\ mkdtemps = 0
    /\ WalkIdle
    /\ ParseIdle
    /\ DecodeIdle
    /\ ConvIdle
    /\ BatchIdle
    /\ HwpxIdle

\* the variables the handlers leave alone
not_web == <<walk_vars, parse_vars, dec_vars, conv_vars, batch_vars,
             hwpx_vars>>

At(r, where) == r \in 1..Len(web_reqs) /\ web_reqs[r].pc = where

\* a request arrives
WebReceive ==
    /\ Len(web_reqs) < MaxRequests
    /\ \E route \in Routes, upload \in Uploads :
         web_reqs' = Append(web_reqs, NewRequest(route, upload))
    /\ UNCHANGED <<tmp_dirs, mkdtemps, not_web>>

\* tmp_dir = tempfile.mkdtemp() raises, before the try statement: the
\* handler raises and the server answers 500; no directory was made
WebMkdtempFails(r) ==
    /\ At(r, "entered")
    /\ web_reqs' = [web_reqs EXCEPT ![r].status = 500, ![r].pc = "returned"]
    /\ UNCHANGED <<tmp_dirs, mkdtemps, not_web>>

\* tmp_dir = tempfile.mkdtemp()
WebMkdtemp(r) ==
    /\ At(r, "entered")
    /\ mkdtemps' = mkdtemps + 1
    /\ tmp_dirs' = tmp_dirs \cup {mkdtemps + 1}
    /\ web_reqs' = [web_reqs EXCEPT ![r].tmp_dir = mkdtemps + 1,
                                    ![r].pc = "try"]
    /\ UNCHANGED not_web

\* open(input_path, "wb") or copyfileobj raises
WebSaveFails(r) ==
    /\ At(r, "try")
    /\ web_reqs' = [web_reqs EXCEPT ![r].pc = "except500"]
    /\ UNCHANGED <<tmp_dirs, mkdtemps, not_web>>

\* the upload is written and convert_file(input_path=..., output_path=...),
\* called without an encoding, returns or raises
WebConvertFile(r) ==
    /\ At(r, "try")
    /\ LET raised == ConvertFileOutcome(web_reqs[r].upload, "utf-8").kind
       IN  web_reqs' = [web_reqs EXCEPT ![r].pc =
              IF raised = "returned" THEN "converted"
              ELSE IF raised \in {"ParserError", "UnsupportedFormatError"}
                   THEN "except422"
              ELSE "except500"]
    /\ UNCHANGED <<tmp_dirs, mkdtemps, not_web>>

\* /convert: return FileResponse(..., background=_cleanup_task(tmp_dir))
WebFileResponse(r) ==
    /\ At(r, "converted")
    /\ web_reqs[r].route = "/convert"
    /\ web_reqs' = [web_reqs EXCEPT
                      ![r].status = 200,
                      ![r].background = TRUE,
                      ![r].dir_at_return = web_reqs[r].tmp_dir \in tmp_dirs,
                      ![r].pc = "returned"]
    /\ UNCHANGED <<tmp_dirs, mkdtemps, not_web>>

\* /convert: the except clauses call shutil.rmtree(tmp_dir,
\* ignore_errors=True) and return the response
WebConvertError(r) ==
    /\ At(r, "except422") \/ At(r, "except500")
    /\ web_reqs[r].route = "/convert"
    /\ \E fails \in BOOLEAN :
         /\ tmp_dirs' = Rmtree(tmp_dirs, web_reqs[r].tmp_dir, fails)
         /\ web_reqs' = [web_reqs EXCEPT
                           ![r].removals = @ + 1,
                           ![r].left = fails,
                           ![r].dir_at_return =
                               web_reqs[r].tmp_dir
                                 \in Rmtree(tmp_dirs, web_reqs[r].tmp_dir, fails),
                           ![r].status = IF web_reqs[r].pc = "except422"
                                         THEN 422 ELSE 500,
                           ![r].pc = "returned"]
    /\ UNCHANGED <<mkdtemps, not_web>>

\* /convert/preview: output_path.read_text or JSONResponse raises
WebReadFails(r) ==
    /\ At(r, "converted")
    /\ web_reqs[r].route = "/convert/preview"
    /\ web_reqs' = [web_reqs EXCEPT ![r].pc = "except500"]
    /\ UNCHANGED <<tmp_dirs, mkdtemps, not_web>>

\* /convert/preview: return JSONResponse(content={...}), up to the finally
\* clause
WebPreviewResponse(r) ==
    /\ At(r, "converted")
    /\ web_reqs[r].route = "/convert/preview"
    /\ web_reqs' = [web_reqs EXCEPT ![r].status = 200, ![r].pc = "finally"]
    /\ UNCHANGED <<tmp_dirs, mkdtemps, not_web>>

\* /convert/preview: the except clauses build the response
WebPreviewError(r) ==
    /\ At(r, "except422") \/ At(r, "except500")
    /\ web_reqs[r].route = "/convert/preview"
    /\ web_reqs' = [web_reqs EXCEPT
                      ![r].status = IF web_reqs[r].pc = "except422"
                                    THEN 422 ELSE 500,
                      ![r].pc = "finally"]
    /\ UNCHANGED <<tmp_dirs, mkdtemps, not_web>>

\* /convert/preview: finally: shutil.rmtree(tmp_dir, ignore_errors=True),
\* and the handler returns the response
WebFinally(r) ==
    /\ At(r, "finally")
    /\ \E fails \in BOOLEAN :
         /\ tmp_dirs' = Rmtree(tmp_dirs, web_reqs[r].tmp_dir, fails)
         /\ web_reqs' = [web_reqs EXCEPT
                           ![r].removals = @ + 1,
                           ![r].left = fails,
                           ![r].dir_at_return =
                               web_reqs[r].tmp_dir
                                 \in Rmtree(tmp_dirs, web_reqs[r].tmp_dir, fails),
                           ![r].pc = "returned"]
    /\ UNCHANGED <<mkdtemps, not_web>>

\* the server has sent the response the handler returned; the background
\* task of the response, if there is one, is started after that
WebSend(r) ==
    /\ At(r, "returned")
    /\ web_reqs' = [web_reqs EXCEPT
                      ![r].sent = TRUE,
                      ![r].pc = IF web_reqs[r].background THEN "sent"
                                ELSE "finished"]
    /\ UNCHANGED <<tmp_dirs, mkdtemps, not_web>>

\* the sending of the response raises: the server drops the request, and
\* the background task of the response is not run
WebSendFails(r) ==
    /\ At(r, "returned")
    /\ web_reqs' = [web_reqs EXCEPT ![r].pc = "finished"]
    /\ UNCHANGED <<tmp_dirs, mkdtemps, not_web>>

\* the background task of the response: shutil.rmtree(tmp_dir, True)
WebBackground(r) ==
    /\ At(r, "sent")
    /\ \E fails \in BOOLEAN :
         /\ tmp_dirs' = Rmtree(tmp_dirs, web_reqs[r].tmp_dir, fails)
         /\ web_reqs' = [web_reqs EXCEPT ![r].removals = @ + 1,
                                         ![r].left = fails,
                                         ![r].pc = "finished"]
    /\ UNCHANGED <<mkdtemps, not_web>>

\* one statement of the handler of request r
WebHandler(r) ==
    \/ WebMkdtempFails(r)
    \/ WebMkdtemp(r)
    \/ WebSaveFails(r)
    \/ WebConvertFile(r)
    \/ WebFileResponse(r)
    \/ WebConvertError(r)
    \/ WebReadFails(r)
    \/ WebPreviewResponse(r)
    \/ WebPreviewError(r)
    \/ WebFinally(r)

\* the server is done with the response of request r, sent or not
WebResponse(r) == WebSend(r) \/ WebSendFails(r)

NextWeb ==
    \/ WebReceive
    \/ \E r \in 1..MaxRequests : WebMkdtempFails(r)
    \/ \E r \in 1..MaxRequests : WebMkdtemp(r)
    \/ \E r \in 1..MaxRequests : WebSaveFails(r)
    \/ \E r \in 1..MaxRequests : WebConvertFile(r)
    \/ \E r \in 1..MaxRequests : WebFileResponse(r)
    \/ \E r \in 1..MaxRequests : WebConvertError(r)
    \/ \E r \in 1..MaxRequests : WebReadFails(r)
    \/ \E r \in 1..MaxRequests : WebPreviewResponse(r)
    \/ \E r \in 1..MaxRequests : WebPreviewError(r)
    \/ \E r \in 1..MaxRequests : WebFinally(r)
    \/ \E r \in 1..MaxRequests : WebSend(r)
    \/ \E r \in 1..MaxRequests : WebSendFails(r)
    \/ \E r \in 1..MaxRequests : WebBackground(r)

\* a handler that was entered runs to its return; the server then sends the
\* response or fails to; and it runs the background task of a response it
\* has sent.  Nothing makes the sending succeed.
SpecWeb ==
    /\ InitWeb
    /\ [][NextWeb]_vars
    /\ \A r \in 1..MaxRequests :
          /\ WF_vars(WebHandler(r))
          /\ WF_vars(WebResponse(r))
          /\ WF_vars(WebBackground(r))

(***************************************************************************)
(* Claims about detect_file_type (SpecConvert)                             *)
(***************************************************************************)
\* the type EXTENSION_TO_TYPE gives for the suffix of the input file
ExtType == ExtensionToType(LowerSuffix(input_path.suffix))

\* detect_file_type has been called
Detected == Len(calls) >= 1 /\ calls[1] = "detect_file_type"

\* C21: detect_file_type raises ValueError exactly when the MIME detector
\* and the extension table both give no type; otherwise it returns the MIME
\* type whenever there is one, also when the extension gives another type,
\* and the extension's type only when there is no MIME type.  The
\* ValueError of detect_file_type ends the call before get_parser is called.
C21_DetectFileType ==
    Detected =>
        /\ (cpc = "done" /\ Len(calls) = 1 /\ conv_outcome.kind = "ValueError")
               <=> (cenv.mime = None /\ ExtType = None)
        /\ cenv.mime # None => file_type = cenv.mime
        /\ (cenv.mime = None /\ ExtType # None) => file_type = ExtType

\* a file named doc.hwp whose content is detected as PDF: the type is "pdf"
C21_Witness ==
    /\ Detected
    /\ cenv.mime = "pdf"
    /\ ExtType = "hwp"
    /\ file_type = "pdf"
    /\ cpc = "done"

(***************************************************************************)
(* Claims about clean_markdown (SpecConvert)                               *)
(***************************************************************************)
\* s holds four line breaks in a row
FourBreaks(s) ==
    \E k \in 1..(Len(s) - 3) : \A j \in 0..3 : s[k + j] = 10

\* clean_markdown has been called on the output of _build_output
Cleaned == clean /\ cenv.parse.ok /\ Len(calls) = 3

\* C22: the output of clean_markdown holds no run of four or more line
\* breaks, also when the lines between the line breaks of the input hold
\* only whitespace, U+FFFD or NUL.
C22_NoLongRun == Cleaned => ~FourBreaks(cleaned)

(***************************************************************************)
(* Claims about the walker's termination and dispatch (SpecWalkLive,       *)
(* SpecWalk)                                                               *)
(***************************************************************************)
\* the bytes read for the k-th record lie in the buffer: its header, its
\* extended size when it has one, and its payload
ReadsInBuffer(k) ==
    LET r == rec_log[k]
        hdr == IF r.size12 = ExtendedSize THEN 8 ELSE 4
    IN  /\ 0 <= r.start
        /\ r.start + hdr <= Len(data)
        /\ r.start + hdr + r.size = r.next
        /\ r.next <= Len(data)
        /\ Len(r.payload) = r.size

\* C23: the walker terminates on every buffer: an iteration that does not
\* stop moves the cursor forward by at least 4, the cursor stays between 0
\* and len(data), no unpack reads past the end (struct.error is never
\* raised) and every header, extended size and payload read lies in the
\* buffer.
C23_Terminates ==
    /\ [][wpc' = "loop" => i' >= i + 4]_vars
    /\ [](0 <= i /\ i <= Len(data))
    /\ [](wpc # "raised" /\ \A k \in 1..Len(rec_log) : ReadsInBuffer(k))
    /\ <>(wpc # "loop")

\* the loop was left by a break inside the buffer, after a record with an
\* extended size was read
C23_Witness ==
    /\ wpc = "done"
    /\ Len(rec_log) = 1
    /\ rec_log[1].size12 = ExtendedSize
    /\ i < Len(data)

(***************************************************************************)
(* Claims about the bytes skipped after a control marker (SpecDecode)      *)
(***************************************************************************)
\* contents for a 14-byte block: zero codes only; line breaks and
\* non-breaking spaces; control markers and letters; letters only
BlockFills ==
    { CodeBytes(<<0, 0, 0, 0, 0, 0, 0>>),
      CodeBytes(<<10, 13, 30, 10, 13, 30, 10>>),
      CodeBytes(<<1, 65, 11, 66, 23, 67, 2>>),
      CodeBytes(<<65, 66, 67, 68, 69, 70, 71>>) }

\* the payload d with the block after the marker read at cursor m replaced
\* by blk (as far as the payload goes)
WithBlock(d, m, blk) ==
    [k \in 1..Len(d) |->
        IF k > m + 2 /\ k <= m + 2 + SkipLen THEN blk[k - (m + 2)] ELSE d[k]]

\* C24: the 14 bytes after a control marker never influence the decoded
\* text: the payload with any other bytes in the block after a marker the
\* decoder read decodes to the same string, also when these bytes hold a
\* zero code, a line break, another control marker or letters.
C24_SkippedBytes ==
    dpc = "done" =>
        \A k \in 1..Len(dec_markers) : \A blk \in BlockFills :
            DecodeParaText(WithBlock(dec_data, dec_markers[k], blk)) = decoded

\* "A", a marker, a block that holds a zero code, a line break and a marker,
\* and "C" were decoded to "AC"
C24_Witness ==
    /\ dpc = "done"
    /\ dec_data = CodeBytes(<<65, 1>>) \o InlineBlock \o CodeBytes(<<67>>)
    /\ dec_markers = <<2>>
    /\ decoded = <<65, 67>>

(***************************************************************************)
(* Claims about the records of other tags (SpecWalk)                       *)
(***************************************************************************)
\* the tag-67 records of a record sequence, in order
RECURSIVE ParaRecords(_)
ParaRecords(rs) ==
    IF rs = <<>> THEN <<>>
    ELSE IF Head(rs).tag_id = TagParaText
         THEN <<Head(rs)>> \o ParaRecords(Tail(rs))
         ELSE ParaRecords(Tail(rs))

\* the buffer is the whole encoding of the records
WholeBuffer == data = EncodeStream(recs)

\* C25: a record whose tag is not 67 adds nothing to the text whatever its
\* payload and level, and the walker steps over its whole payload: the text
\* of a buffer is the text of the buffer without these records.
C25_UnhandledTags ==
    /\ \A k \in 1..Len(rec_log) :
          rec_log[k].tag_id # TagParaText =>
              /\ rec_log[k].frag = <<>>
              /\ rec_log[k].payload = recs[k].payload
              /\ rec_log[k].next =
                     rec_log[k].start + Len(EncodeRecord(recs[k]))
    /\ (wpc = "done" /\ WholeBuffer) =>
          text = ExtractHwpText(EncodeStream(ParaRecords(recs))).text

\* a record of tag 71 and level 65 whose payload is the code of "Z",
\* followed by a tag-67 record: the text is that of the second record alone
C25_Witness ==
    /\ wpc = "done"
    /\ WholeBuffer
    /\ recs = <<Rec(71, 65, FALSE, CodeBytes(<<90>>)),
                Rec(67, 0, FALSE, CodeBytes(<<65, 10, 66>>))>>
    /\ text = <<65, 10, 66>>

(***************************************************************************)
(* Claims about the assets of a failed call (Spec)                         *)
(***************************************************************************)
\* C26: when _parse_hwp raises the no-extractable-text error, that call has
\* written no image file, whole or in part, also with extract_images and
\* BinData streams.
C26_NoAssetsOnError ==
    (pc = "done" /\ IsNoTextError(outcome)) => written = <<>> /\ partial = {}

(***************************************************************************)
(* Claims about the parser registry (SpecConvert)                          *)
(***************************************************************************)
\* C27: every type detect_file_type returns has a parser in the registry
\* once the parser modules are loaded: get_parser never raises
\* UnsupportedFormatError for a detected type.
C27_DetectedTypeHasParser ==
    registry = RegisteredTypes =>
        /\ file_type # None => file_type \in registry
        /\ conv_outcome.kind # "UnsupportedFormatError"

(***************************************************************************)
(* Claims about convert_batch (SpecBatch)                                  *)
(***************************************************************************)
\* the files of the directory convert_batch has to report: those the glob
\* pattern reaches and whose suffix is in EXTENSION_TO_TYPE
Reportable ==
    { e \in listing :
        /\ e.is_file
        /\ recursive \/ e.dir = <<>>
        /\ ExtensionToType(LowerSuffix(e.suffix)) # None }

\* convert_file returns on the file: its type has a parser, the parser
\* returns, the operating system refuses no step of the writing, and the
\* encoding handed on by convert_batch can encode the text
Converts(e) ==
    /\ e.suffix = ".txt"
    /\ e.parse_ok
    /\ ~(e.io = "mkdir" /\ e.dir # <<>>)
    /\ e.io \notin {"open", "write"}
    /\ kwargs.encoding \in KnownEncodings
    /\ \A k \in 1..Len(e.content) : Encodable(e.content[k], kwargs.encoding)

\* the exceptions convert_file raises on the files of the model
ConvertErrors ==
    {"UnsupportedFormatError", "ParserError", "ValueError", "OSError",
     "LookupError", "UnicodeEncodeError"}

\* C28: convert_batch visits the files in sorted path order, skips the
\* files whose type is not detected without a report entry, and appends
\* exactly one entry, "success" or "failed", for every other file: "success"
\* with the output file written when convert_file returns, "failed" with
\* the exception when it raises, in the parser or while it writes the
\* output; the files after a failed one are converted as well, and
\* convert_batch raises nothing once it has made the output directory.
C28_BatchIsolation ==
    /\ \A k \in 1..Len(results) :
          /\ results[k].status \in {"success", "failed"}
          /\ \E e \in Reportable :
                /\ results[k].file = RelativeTo(e)
                /\ results[k].status = "success" <=> Converts(e)
                /\ results[k].status = "success" =>
                      /\ results[k].output = OutPath(e)
                      /\ [path |-> OutPath(e),
                          data |-> Encode(e.content, kwargs.encoding).bytes]
                            \in batch_out.files
                /\ results[k].status = "failed" =>
                      /\ results[k].output = <<>>
                      /\ results[k].error \in ConvertErrors
          /\ k < Len(results) => PathLess(results[k].file, results[k + 1].file)
    /\ bpc = "done" =>
          /\ Len(results) = Cardinality(Reportable)
          /\ \A e \in Reportable :
                \E k \in 1..Len(results) : results[k].file = RelativeTo(e)
    /\ bpc = "raised" => (results = <<>> /\ ~batch_out.made)

\* B.txt whose text "ascii" cannot encode, c.xyz and d.txt, converted with
\* encoding="ascii": a "failed" entry for B.txt, whose output file is left
\* empty, no entry for c.xyz, a "success" entry for d.txt
C28_Witness ==
    /\ bpc = "done"
    /\ kwargs.encoding = "ascii"
    /\ listing = { TextEntry(<<>>, <<66>>, ".txt", <<97, 44032>>, ""),
                   FileEntry(<<>>, <<99>>, ".xyz", TRUE),
                   FileEntry(<<>>, <<100>>, ".txt", TRUE) }
    /\ Len(results) = 2
    /\ results[1].status = "failed"
    /\ results[1].error = "UnicodeEncodeError"
    /\ results[2].status = "success"
    /\ batch_out.files = { [path |-> <<<<66, 46, 109, 100>>>>, data |-> <<>>],
                           [path |-> <<<<100, 46, 109, 100>>>>, data |-> <<97>>] }

(***************************************************************************)
(* Claims about _parse_hwpx (SpecHwpx)                                     *)
(***************************************************************************)
\* the archive holds Contents/section0.xml .. Contents/section(n-1).xml,
\* each with its text
NumberedSections(n) ==
    /\ ~zf.bad
    /\ Len(zf.members) >= n
    /\ \A k \in 1..n : zf.members[k] = GoodSection(k - 1)
    /\ \A k \in (n + 1)..Len(zf.members) : ~IsSectionName(zf.members[k].name)

\* C29: _parse_hwpx joins the section texts in ascending section number:
\* on an archive with sections 0..n-1, also for n > 10, the content is the
\* text of section 0, of section 1, ... of section n-1.
C29_HwpxSectionOrder ==
    \A n \in 1..MaxHwpxSections :
        (hpc = "done" /\ NumberedSections(n)) =>
            /\ hx_outcome.kind = "return"
            /\ hx_outcome.content =
                  Join(BlankLine, [k \in 1..n |-> SectionMark(k - 1)])

(***************************************************************************)
(* Claims about the web handlers (SpecWeb)                                 *)
(***************************************************************************)
\* request r has made its temporary directory and it is still there
HasTmpDir(r) ==
    /\ r \in 1..Len(web_reqs)
    /\ web_reqs[r].tmp_dir \in tmp_dirs

\* request r is over and its temporary directory is gone
TmpDirRemoved(r) ==
    /\ At(r, "finished")
    /\ web_reqs[r].tmp_dir \notin tmp_dirs

\* the handler of request r has returned its response
HasReturned(r) == At(r, "returned") \/ At(r, "sent") \/ At(r, "finished")

\* request r is over, and the rmtree called for it has left the directory
LeftBehind(r) == At(r, "finished") /\ web_reqs[r].left

\* request r is over, and its response, which carries the background task,
\* was not sent
Unsent(r) ==
    /\ At(r, "finished")
    /\ web_reqs[r].background
    /\ ~web_reqs[r].sent

====
